---- MODULE Spec2Model ----
(***************************************************************************)
(* Model of outage_notifier.py (main): the loop that walks the sorted      *)
(* snapshot files of one utility, derives the duration columns of every    *)
(* row at the file's own time, compares each file with the one before it   *)
(* and hands the notifiable new / resolved / escalated outages to          *)
(* send_notification.                                                      *)
(*                                                                         *)
(* A DataFrame is a set of rows (records) with unique outage_id.  A value  *)
(* that pandas may hold as None/NaN is a set with at most one element:     *)
(* {} is the null, {v} the number v, so that every comparison with a null  *)
(* is false, as it is for pandas.  Rows are the rows left after the        *)
(* optional zip-code filter.                                               *)
(*                                                                         *)
(* smallest_enclosing_circle of outage_utils.py is modelled on its own     *)
(* (SpecCircle), in exact rational arithmetic over a small integer grid.   *)
(*                                                                         *)
(* The other programs and functions of the repository are modelled on      *)
(* their own, each under its own specification over the same variables:    *)
(* send_notification (SpecSend), analyze_current_outages.py (SpecAnalysis),*)
(* parse_snopud_file (SpecSnopud), load_zip_codes (SpecZip) and expand.py  *)
(* (SpecExpand).  SpecNegative and SpecPge are the notifier started with   *)
(* a negative threshold and with -u pge.                                   *)
(***************************************************************************)
EXTENDS Integers, FiniteSets, Sequences, TLC

VARIABLES
    args,                        \* the parsed command line (thresholds)
    utility,                     \* args.utility
    pc,                          \* "start", "loop", "done", "exit", "raised"
    exit_status,                 \* {} while running, else {status}
    all_files,                   \* len(all_files)
    file_index,                  \* number of files read so far
    is_first_file,
    previous_file_df,
    current_file_df,
    json_error,                  \* the file read last was not valid JSON
    notifiable_new_outages,
    notifiable_resolved_outages,
    notifiable_active_outages,
    messages_to_send,            \* the notifications of the last comparison
    \* History of the run, read by the hysteresis properties only: the pairs
    \* <<id, path>> for which a New or Escalated message has fired on `path`
    \* and, in every file since, the outage ...
    notified_overall,            \* ... has been overall-notifiable
    notified_path,               \* ... has met the criterion of `path`
    \* History of the run: the outages that were overall-notifiable in the
    \* first file and in every file up to previous_file_df, the customers
    \* never crossing the large-outage threshold upward on the way.
    notifiable_since_first,
    \* outage_utils.smallest_enclosing_circle, called on its own
    array_of_arrays_of_points,   \* the argument of the call
    circle,                      \* {} before the call, else {returned tuple}
    three_point_skipped,         \* the call refused a collinear triple
    \* outage_notifier.send_notification, its sending loop
    bot_token,                   \* bot_token and chat_id are both given
    telegram_results,            \* per message handled: "sent", "failed", "skipped"
    notification_files,          \* the file names in notification_output_dir
    now,                         \* datetime.now(), in seconds
    earlier_events,              \* <<msg_type, outage_id>> of the earlier calls
    \* analyze_current_outages.py (main)
    outage_updates_df,           \* df: the rows of the CSV file
    analysis_new_outages,        \* new_outages, as handed to send_notification
    analysis_resolved_outages,   \* resolved_outages, likewise
    \* outage_utils.parse_snopud_file, called on its own
    placemarks,                  \* root.Document.Folder.Placemark, in file order
    snopud_rows,                 \* the rows appended to `rows`
    \* zip_utils.load_zip_codes
    zip_files,                   \* per path: "missing", "unreadable" or "good"
    zip_geo_df,                  \* _zip_geo_df: None, or {path it was read from}
    zip_returned,                \* what the last call returned, likewise
    zip_calls,                   \* number of calls made
    zip_reads,                   \* number of calls of gpd.read_file
    \* expand.py (main), run again and again on one repository
    commits,                     \* repo.iter_commits(branch), newest first
    incremental_file,            \* the file of --incremental: {} when it does
                                 \* not exist, else {its content}
    expand_args,                 \* args of the last run
    file_versions,               \* the versions selected by the last run
    exported_versions,           \* those it exported, in the order of export
    files_exported,
    newest_processed_filename,   \* None, or {export_filename}
    incremental_written,         \* the last run wrote the incremental file
    expand_exit,                 \* {} before a run, else {its exit status}
    expand_runs                  \* number of runs made

\* Bounds of the model.
MaxFiles == 4
PollMinutes == 15
MaxPoints == 4
MaxSeconds == 1
MaxPlacemarks == 3
MaxCalls == 3
MaxCommits == 2
MaxTime == 2
MaxRuns == 2

\* main, lines 249-255: the defaults of -r (hours), -c, -lc and -e.  The
\* elapsed-time threshold, 0.25 hours, is held in minutes.
DefaultArgs ==
    [remaining_expected_length_threshold |-> 4,
     customer_threshold |-> 100,
     large_outage_customer_threshold |-> 1000,
     elapsed_time_threshold_minutes |-> 15]

\* Command lines with a negative threshold; argparse (type=float, type=int)
\* accepts each of them.
NegativeArgs ==
    {[DefaultArgs EXCEPT !.customer_threshold = 0 - 1],
     [DefaultArgs EXCEPT !.remaining_expected_length_threshold = 0 - 1,
                         !.elapsed_time_threshold_minutes = 0 - 15,
                         !.large_outage_customer_threshold = 0 - 1]}

\* main, lines 279-285: the thresholds the comparisons use.
customer_threshold == args.customer_threshold
large_outage_customer_threshold == args.large_outage_customer_threshold
expected_length_threshold_minutes ==
    args.remaining_expected_length_threshold * 60
elapsed_time_threshold_minutes == args.elapsed_time_threshold_minutes

OutageIds == {"INC1", "INC2"}

\* ---- nullable numbers ---------------------------------------------------
NONE == {}
isna(x) == x = {}
GE(x, thr) == \E v \in x : v >= thr
LT(x, thr) == \E v \in x : v < thr

\* ---- outage_utils.py: derived durations ---------------------------------
calculate_expected_length_minutes(update_time, est_restoration_time) ==
    IF isna(est_restoration_time) THEN NONE
    ELSE {e - update_time : e \in est_restoration_time}

calculate_active_duration_minutes(start_time, current_time) ==
    {current_time - start_time}

\* ---- the files ----------------------------------------------------------
\* gmt_file_datetime of the file at position k (1-based) of sorted(all_files),
\* in minutes.
gmt_file_datetime(k) == k * PollMinutes

CustomerValues == {50, 100, 1000, 5000}

\* The rows a parser may append for one outage in the file of time t.  The
\* customers and the restoration estimate of INC1, and the start time of
\* INC2, sit on either side of the default thresholds.
DefaultElapsed == DefaultArgs.elapsed_time_threshold_minutes
DefaultExpected == DefaultArgs.remaining_expected_length_threshold * 60

ParsedRowsOf(id, t) ==
    IF id = "INC1"
    THEN [outage_id : {id},
          customers_impacted : CustomerValues,
          start_time : {t - DefaultElapsed},
          est_restoration_time : {NONE,
                                  {t + DefaultExpected},
                                  {t + DefaultExpected - 1}}]
    ELSE {[outage_id |-> id, customers_impacted |-> 100,
           start_time |-> t - DefaultElapsed,
           est_restoration_time |-> {t + DefaultExpected}],
          [outage_id |-> id, customers_impacted |-> 100,
           start_time |-> t - DefaultElapsed + 1,
           est_restoration_time |-> {t + DefaultExpected}],
          [outage_id |-> id, customers_impacted |-> 1000,
           start_time |-> t - DefaultElapsed,
           est_restoration_time |-> NONE]}

\* No row, or one of its possible rows, for one outage id.
OptionalRowOf(id, t) == {{}} \cup {{r} : r \in ParsedRowsOf(id, t)}

\* The contents a file of time t may have: at most one row per outage id.
ParsedFiles(t) ==
    {a \cup b : a \in OptionalRowOf("INC1", t), b \in OptionalRowOf("INC2", t)}

\* A snapshot file: text that json.load refuses, or a JSON document with the
\* rows its outages give.
InvalidJson == [valid |-> FALSE, rows |-> {}]
SnapshotFiles(t) ==
    {InvalidJson} \cup {[valid |-> TRUE, rows |-> rows] : rows \in ParsedFiles(t)}

\* outage_utils.parse_pse_file, lines 147-152: on a JSON error the function
\* returns with no row appended.  parse_pge_file, lines 373-379: the handler
\* sets data = [] and goes on to data.get("features", []); a list has no
\* method get, AttributeError leaves the function.
ParseRaises(name, file) == name = "pge" /\ ~file.valid

\* The rows appended to current_file_rows when the parser returns.
ParsedRows(file) == IF file.valid THEN file.rows ELSE {}

\* ---- DataFrame helpers --------------------------------------------------
EmptyDataFrame == {}
empty(df) == df = {}
outage_ids(df) == {r.outage_id : r \in df}
RowOf(df, id) == CHOOSE r \in df : r.outage_id = id

\* main, lines 354-366: the two calculated columns, at the file's own time.
AddCalculatedColumns(rows, file_datetime) ==
    {[outage_id |-> r.outage_id,
      customers_impacted |-> r.customers_impacted,
      start_time |-> r.start_time,
      est_restoration_time |-> r.est_restoration_time,
      expected_length_minutes |->
          calculate_expected_length_minutes(file_datetime, r.est_restoration_time),
      elapsed_time_minutes |->
          calculate_active_duration_minutes(r.start_time, file_datetime)]
     : r \in rows}

\* Variant of new_outages: an empty previous file yields no new outage.
new_outages_no_empty_previous(previous_df, current_df) ==
    IF empty(current_df) \/ empty(previous_df) THEN EmptyDataFrame
    ELSE {r \in current_df : r.outage_id \notin outage_ids(previous_df)}

\* main, lines 385-405: new, resolved and active outages of a pair of files.
new_outages(previous_df, current_df) ==
    IF empty(current_df) /\ empty(previous_df) THEN EmptyDataFrame
    ELSE IF empty(current_df) THEN EmptyDataFrame
    ELSE IF empty(previous_df) THEN current_df
    ELSE {r \in current_df : r.outage_id \notin outage_ids(previous_df)}

\* Variant of resolved_outages: an empty current file resolves nothing.
resolved_outages_no_empty_current(previous_df, current_df) ==
    IF empty(current_df) \/ empty(previous_df) THEN EmptyDataFrame
    ELSE {r \in previous_df : r.outage_id \notin outage_ids(current_df)}

\* Variant of resolved_outages: no test of the ids of the current file.
resolved_outages_all_previous(previous_df, current_df) == previous_df

resolved_outages(previous_df, current_df) ==
    IF empty(current_df) /\ empty(previous_df) THEN EmptyDataFrame
    ELSE IF empty(current_df) THEN previous_df
    ELSE IF empty(previous_df) THEN EmptyDataFrame
    ELSE {r \in previous_df : r.outage_id \notin outage_ids(current_df)}

active_outages(previous_df, current_df) ==
    IF empty(current_df) /\ empty(previous_df) THEN EmptyDataFrame
    ELSE IF empty(current_df) THEN EmptyDataFrame
    ELSE IF empty(previous_df) THEN EmptyDataFrame
    ELSE {r \in current_df : r.outage_id \in outage_ids(previous_df)}

\* Variant of NotifiableNewFilter: strict comparisons.
NotifiableNewFilter_strict(r) ==
    \/ /\ \E v \in r.expected_length_minutes : v > expected_length_threshold_minutes
       /\ r.customers_impacted > customer_threshold
       /\ \E v \in r.elapsed_time_minutes : v > elapsed_time_threshold_minutes
    \/ r.customers_impacted > large_outage_customer_threshold

\* main, lines 407-414.
NotifiableNewFilter(r) ==
    \/ /\ GE(r.expected_length_minutes, expected_length_threshold_minutes)
       /\ r.customers_impacted >= customer_threshold
       /\ GE(r.elapsed_time_minutes, elapsed_time_threshold_minutes)
    \/ r.customers_impacted >= large_outage_customer_threshold

\* main, lines 416-423.
NotifiableResolvedFilter(r) ==
    \/ /\ r.customers_impacted >= customer_threshold
       /\ GE(r.expected_length_minutes, expected_length_threshold_minutes)
       /\ GE(r.elapsed_time_minutes, elapsed_time_threshold_minutes)
    \/ r.customers_impacted >= large_outage_customer_threshold

\* main, lines 429-436: the active rows merged with their previous values.
active_merged(active_df, previous_df) ==
    {[outage_id |-> r.outage_id,
      start_time |-> r.start_time,
      est_restoration_time |-> r.est_restoration_time,
      expected_length_minutes_current |-> r.expected_length_minutes,
      elapsed_time_minutes_current |-> r.elapsed_time_minutes,
      customers_impacted_current |-> r.customers_impacted,
      expected_length_minutes_previous |-> p.expected_length_minutes,
      elapsed_time_minutes_previous |-> p.elapsed_time_minutes,
      customers_impacted_previous |-> p.customers_impacted]
     : <<r, p>> \in {<<r, p>> \in active_df \X previous_df :
                        r.outage_id = p.outage_id}}

\* main, lines 440-444.
primary_thresholds_met(m) ==
    /\ GE(m.expected_length_minutes_current, expected_length_threshold_minutes)
    /\ m.customers_impacted_current >= customer_threshold
    /\ GE(m.elapsed_time_minutes_current, elapsed_time_threshold_minutes)

\* Variant of primary_thresholds_not_met_previously: the previous record met
\* neither the primary thresholds nor the large-outage threshold.
not_notifiable_previously(m) ==
    /\ \/ isna(m.expected_length_minutes_previous)
       \/ LT(m.expected_length_minutes_previous, expected_length_threshold_minutes)
       \/ m.customers_impacted_previous < customer_threshold
       \/ isna(m.elapsed_time_minutes_previous)
       \/ LT(m.elapsed_time_minutes_previous, elapsed_time_threshold_minutes)
    /\ m.customers_impacted_previous < large_outage_customer_threshold

\* Variant of primary_thresholds_not_met_previously: no look at the previous
\* record at all.
previous_not_checked(m) == m.customers_impacted_previous >= 0

\* Variant of primary_thresholds_not_met_previously: the outage has not been
\* notified on the primary path since it last failed the primary thresholds
\* (a memory of the run beyond the previous file).
not_notified_before(m) == <<m.outage_id, "primary">> \notin notified_path

\* main, lines 446-450 (customers_impacted is an int, never null).
primary_thresholds_not_met_previously(m) ==
    \/ isna(m.expected_length_minutes_previous)
    \/ LT(m.expected_length_minutes_previous, expected_length_threshold_minutes)
    \/ m.customers_impacted_previous < customer_threshold
    \/ isna(m.elapsed_time_minutes_previous)
    \/ LT(m.elapsed_time_minutes_previous, elapsed_time_threshold_minutes)

\* Variant of large_outage_escalation: the previous count is not compared
\* with the threshold.
large_outage_no_previous_check(m) ==
    m.customers_impacted_current >= large_outage_customer_threshold

\* Variant of large_outage_escalation: any rise of a large outage.
large_outage_any_increase(m) ==
    /\ m.customers_impacted_current >= large_outage_customer_threshold
    /\ m.customers_impacted_previous < m.customers_impacted_current

\* main, lines 452-455.
large_outage_escalation(m) ==
    /\ m.customers_impacted_current >= large_outage_customer_threshold
    /\ m.customers_impacted_previous < large_outage_customer_threshold

\* Variant of NotifiableActiveFilter: the current record is not looked at on
\* the primary path.
NotifiableActiveFilter_previous_only(m) ==
    \/ primary_thresholds_not_met_previously(m)
    \/ large_outage_escalation(m)

\* main, lines 457-461.
NotifiableActiveFilter(m) ==
    \/ primary_thresholds_met(m) /\ primary_thresholds_not_met_previously(m)
    \/ large_outage_escalation(m)

\* main, lines 473-487: one fragment of the reason, "name (previous=>current)";
\* a NaN is written "nan", here the null.
ReasonFragment(name, previous, current) == <<name, previous, current>>

\* main, line 489: the fallback "unknown reason".
UnknownReason == <<"unknown reason", NONE, NONE>>

\* main, lines 357-360 and 432-436: pandas holds the expected_length_minutes
\* of a file as float64 with NaN for the nulls when some row has a number, and
\* as object with None when every row is null; the merge keeps the dtype.
PreviousExpectedLengthIsNone(m, previous_df) ==
    /\ isna(m.expected_length_minutes_previous)
    /\ \A p \in previous_df : isna(p.expected_length_minutes)

\* main, lines 469-475: format(None, ".0f") raises TypeError; nothing in main
\* catches it.
ReasonRaises(m, previous_df) ==
    /\ primary_thresholds_met(m) /\ primary_thresholds_not_met_previously(m)
    /\ PreviousExpectedLengthIsNone(m, previous_df)

\* main, lines 465-489: the fragments of the reason of one notifiable row, in
\* the order in which they are appended.
determine_notification_reason(m) ==
    LET primary ==
            IF primary_thresholds_met(m) /\ primary_thresholds_not_met_previously(m)
            THEN (IF \/ isna(m.expected_length_minutes_previous)
                     \/ LT(m.expected_length_minutes_previous,
                           expected_length_threshold_minutes)
                  THEN <<ReasonFragment("expected_length",
                                        m.expected_length_minutes_previous,
                                        m.expected_length_minutes_current)>>
                  ELSE <<>>)
                 \o (IF m.customers_impacted_previous < customer_threshold
                     THEN <<ReasonFragment("customers",
                                           {m.customers_impacted_previous},
                                           {m.customers_impacted_current})>>
                     ELSE <<>>)
                 \o (IF \/ isna(m.elapsed_time_minutes_previous)
                        \/ LT(m.elapsed_time_minutes_previous,
                              elapsed_time_threshold_minutes)
                     THEN <<ReasonFragment("elapsed_time",
                                           m.elapsed_time_minutes_previous,
                                           m.elapsed_time_minutes_current)>>
                     ELSE <<>>)
            ELSE <<>>
        large ==
            IF large_outage_escalation(m)
            THEN <<ReasonFragment("customers",
                                  {m.customers_impacted_previous},
                                  {m.customers_impacted_current})>>
            ELSE <<>>
        reasons == primary \o large
    IN  IF reasons # <<>> THEN reasons ELSE <<UnknownReason>>

\* main, lines 491-500: the notification_reason column, and the _current
\* columns renamed to the names send_notification reads.
WithReasonRenamed(m) ==
    [outage_id |-> m.outage_id,
     start_time |-> m.start_time,
     est_restoration_time |-> m.est_restoration_time,
     expected_length_minutes |-> m.expected_length_minutes_current,
     elapsed_time_minutes |-> m.elapsed_time_minutes_current,
     customers_impacted |-> m.customers_impacted_current,
     expected_length_minutes_previous |-> m.expected_length_minutes_previous,
     elapsed_time_minutes_previous |-> m.elapsed_time_minutes_previous,
     customers_impacted_previous |-> m.customers_impacted_previous,
     notification_reason |-> determine_notification_reason(m)]

\* The order of the rows of a DataFrame: the order of the outages in a file.
IdOrder == <<"INC1", "INC2">>

RowsInOrder(df) ==
    LET IsIn(id) == id \in outage_ids(df)
        ids == SelectSeq(IdOrder, IsIn)
    IN  [i \in 1..Len(ids) |-> RowOf(df, ids[i])]

\* send_notification, lines 119-210: the list messages_to_send, one message
\* per row: the new outages, then the escalated ones with their reason, then
\* the resolved ones.  A message is <<msg_type, outage_id, reason>>.
MessagesToSend(new_df, active_df, resolved_df) ==
    LET new_rows == RowsInOrder(new_df)
        active_rows == RowsInOrder(active_df)
        resolved_rows == RowsInOrder(resolved_df)
    IN  [i \in 1..Len(new_rows) |-> <<"new", new_rows[i].outage_id, <<>> >>]
        \o [i \in 1..Len(active_rows) |->
                <<"escalated", active_rows[i].outage_id,
                  active_rows[i].notification_reason>>]
        \o [i \in 1..Len(resolved_rows) |->
                <<"resolved", resolved_rows[i].outage_id, <<>> >>]

\* ---- the alert criteria, as the specification words them ----------------
\* (NotifiabilityResult of one record with its derived durations)
PrimaryMet(r) ==
    /\ ~isna(r.expected_length_minutes)
    /\ \A v \in r.expected_length_minutes : v >= expected_length_threshold_minutes
    /\ r.customers_impacted >= customer_threshold
    /\ ~isna(r.elapsed_time_minutes)
    /\ \A v \in r.elapsed_time_minutes : v >= elapsed_time_threshold_minutes

LargeMet(r) == r.customers_impacted >= large_outage_customer_threshold

OverallNotifiable(r) == PrimaryMet(r) \/ LargeMet(r)

Paths == {"primary", "large"}
PathMet(path, r) == IF path = "primary" THEN PrimaryMet(r) ELSE LargeMet(r)

\* main, lines 469-470 and 486: what made a row of notifiable_active_outages
\* notifiable, the primary thresholds newly met or the large-outage crossing.
EscalationCause(m, path) ==
    IF path = "primary"
    THEN primary_thresholds_met(m) /\ primary_thresholds_not_met_previously(m)
    ELSE large_outage_escalation(m)

\* An Escalated event for id caused by `path`.
EscalatedOnPath(notifiable_active, id, path) ==
    \E m \in notifiable_active : m.outage_id = id /\ EscalationCause(m, path)

\* A New event for id whose record meets the criterion of `path`, or an
\* Escalated event for id caused by `path`.
FiredOnPath(notifiable_new, notifiable_active, id, path) ==
    \/ \E r \in notifiable_new : r.outage_id = id /\ PathMet(path, r)
    \/ EscalatedOnPath(notifiable_active, id, path)

\* ---- outage_utils.py: smallest_enclosing_circle ---------------------------
\* A point is <<lon, lat>>.  A circle (cx, cy, r) is <<X, Y, D, R2>> with
\* D > 0: its center is (X/D, Y/D) and the square of its radius R2/(D*D), so
\* that the arithmetic is exact.  On the small integer coordinates used here
\* the floating-point results differ from the exact ones by far less than the
\* tolerance 1e-12 of _is_in_circle, and two distinct squared distances by far
\* more, so the exact comparison is the comparison the code makes.
NoCircle == <<>>

Square(x) == x * x

\* Lines 65-69: distance(point, center) <= r + 1e-12, None holds no point.
is_in_circle(point, c) ==
    IF c = NoCircle THEN FALSE
    ELSE Square(point[1] * c[3] - c[1]) + Square(point[2] * c[3] - c[2]) <= c[4]

\* Lines 71-75.
circle_from_two_points(a, b) ==
    <<a[1] + b[1], a[2] + b[2], 2, Square(a[1] - b[1]) + Square(a[2] - b[2])>>

\* Lines 77-91: the circumcircle, None when d is (nearly) zero.
circle_from_three_points(a, b, c) ==
    LET ax == a[1]  ay == a[2]
        bx == b[1]  by == b[2]
        cx == c[1]  cy == c[2]
        d == 2 * (ax * (by - cy) + bx * (cy - ay) + cx * (ay - by))
        ax2ay2 == ax * ax + ay * ay
        bx2by2 == bx * bx + by * by
        cx2cy2 == cx * cx + cy * cy
        ux_d == ax2ay2 * (by - cy) + bx2by2 * (cy - ay) + cx2cy2 * (ay - by)
        uy_d == ax2ay2 * (cx - bx) + bx2by2 * (ax - cx) + cx2cy2 * (bx - ax)
        sign == IF d < 0 THEN 0 - 1 ELSE 1
        D == sign * d
        X == sign * ux_d
        Y == sign * uy_d
    IN  IF d = 0 THEN NoCircle
        ELSE <<X, Y, D, Square(X - ax * D) + Square(Y - ay * D)>>

\* Lines 101-109: a point that is None (here <<>>) or on which float(p[0]),
\* float(p[1]) raises (here a one-element point) is skipped.
NormalizePoint_origin_for_unusable(p) ==
    IF Len(p) = 2 THEN <<p>> ELSE << <<0, 0>> >>

NormalizePoint(p) == IF Len(p) = 2 THEN <<p>> ELSE <<>>

RECURSIVE NormalizeRing(_)
NormalizeRing(points_lon_lat) ==
    IF points_lon_lat = <<>> THEN <<>>
    ELSE NormalizePoint(Head(points_lon_lat))
             \o NormalizeRing(Tail(points_lon_lat))

\* Lines 99-109: the points of all the rings, in order (a ring that is None
\* or empty is <<>>).
RECURSIVE Normalize(_)
Normalize(rings) ==
    IF rings = <<>> THEN <<>>
    ELSE NormalizeRing(Head(rings)) \o Normalize(Tail(rings))

\* Lines 111-117: de-duplicate while preserving order.
RECURSIVE DeDuplicate(_, _)
DeDuplicate(normalized, seen) ==
    IF normalized = <<>> THEN <<>>
    ELSE IF Head(normalized) \in seen
         THEN DeDuplicate(Tail(normalized), seen)
         ELSE <<Head(normalized)>>
                  \o DeDuplicate(Tail(normalized), seen \cup {Head(normalized)})

\* The loops carry the running circle c and whether a collinear triple was
\* refused.
Running(c, skipped) == [c |-> c, skipped |-> skipped]

\* Variant of ThreePointStep: there is no three-point stage.
ThreePointStep_none(run, p, q, r) == run

\* Variant of ThreePointStep: the circumcircle is taken whether or not r is
\* in the running circle.
ThreePointStep_unconditional(run, p, q, r) ==
    LET c3 == circle_from_three_points(p, q, r)
    IN  IF c3 # NoCircle THEN Running(c3, run.skipped) ELSE run

\* Variant of ThreePointStep: the result of _circle_from_three_points is
\* taken without the test for None.
ThreePointStep_unchecked(run, p, q, r) ==
    IF ~is_in_circle(r, run.c)
    THEN Running(circle_from_three_points(p, q, r), run.skipped)
    ELSE run

\* Lines 138-142: the body of the innermost loop.
ThreePointStep(run, p, q, r) ==
    IF ~is_in_circle(r, run.c)
    THEN LET c3 == circle_from_three_points(p, q, r)
         IN  IF c3 # NoCircle THEN Running(c3, run.skipped)
             ELSE Running(run.c, TRUE)
    ELSE run

\* Lines 136-142: for k in range(j), with 1-based k and j.
RECURSIVE LoopK(_, _, _, _, _, _)
LoopK(points, p, q, j, k, run) ==
    IF k >= j THEN run
    ELSE LoopK(points, p, q, j, k + 1, ThreePointStep(run, p, q, points[k]))

\* Lines 132-142: for j in range(i), with 1-based j and i.
RECURSIVE LoopJ(_, _, _, _, _)
LoopJ(points, p, i, j, run) ==
    IF j >= i THEN run
    ELSE LET q == points[j]
         IN  IF ~is_in_circle(q, run.c)
             THEN LoopJ(points, p, i, j + 1,
                        LoopK(points, p, q, j, 1,
                              Running(circle_from_two_points(p, q),
                                      run.skipped)))
             ELSE LoopJ(points, p, i, j + 1, run)

\* Lines 128-142: for i, p in enumerate(points), with 1-based i.
RECURSIVE LoopI(_, _, _)
LoopI(points, i, run) ==
    IF i > Len(points) THEN run
    ELSE LET p == points[i]
         IN  IF run.c = NoCircle \/ ~is_in_circle(p, run.c)
             THEN LoopI(points, i + 1,
                        LoopJ(points, p, i, 1,
                              Running(<<p[1], p[2], 1, 0>>, run.skipped)))
             ELSE LoopI(points, i + 1, run)

\* Lines 93-142: the returned circle and whether a collinear triple was met.
smallest_enclosing_circle_run(rings) ==
    LET points == DeDuplicate(Normalize(rings), {})
    IN  IF points = <<>> THEN Running(<<0, 0, 1, 0>>, FALSE)
        ELSE IF Len(points) = 1
             THEN Running(<<points[1][1], points[1][2], 1, 0>>, FALSE)
             ELSE LoopI(points, 1, Running(NoCircle, FALSE))

smallest_enclosing_circle(rings) == smallest_enclosing_circle_run(rings).c

\* The arguments of the calls: up to MaxPoints entries, each a point of a small
\* grid, a None or a point with no latitude, in any order and with
\* repetitions, in one ring or split into two (either of which may be empty),
\* or no ring at all.
GridPoints == {<<0, 0>>, <<2, 0>>, <<4, 0>>, <<1, 2>>, <<2, 1>>, <<0, 2>>}
PointValues == GridPoints \cup {<<>>, <<0>>}
FlatInputs(n) == [1..n -> PointValues]
CircleInput(f, cut) == <<SubSeq(f, 1, cut), SubSeq(f, cut + 1, Len(f))>>

program_vars == <<args, utility, pc, exit_status, all_files, file_index,
                  is_first_file, previous_file_df, current_file_df,
                  json_error, notifiable_new_outages,
                  notifiable_resolved_outages, notifiable_active_outages,
                  messages_to_send>>

circle_vars == <<array_of_arrays_of_points, circle, three_point_skipped>>

send_vars == <<bot_token, telegram_results, notification_files, now,
               earlier_events>>

analysis_vars == <<outage_updates_df, analysis_new_outages,
                   analysis_resolved_outages>>

\* The variables of the programs and functions modelled on their own.
snopud_vars == <<placemarks, snopud_rows>>

zip_vars == <<zip_files, zip_geo_df, zip_returned, zip_calls, zip_reads>>

expand_vars == <<commits, incremental_file, expand_args, file_versions,
                 exported_versions, files_exported, newest_processed_filename,
                 incremental_written, expand_exit, expand_runs>>

other_vars == <<send_vars, analysis_vars, snopud_vars, zip_vars, expand_vars>>

\* What a call of send_notification leaves alone, besides the notifier's state.
outside_send == <<circle_vars, analysis_vars, snopud_vars, zip_vars,
                  expand_vars>>

\* What analyze_current_outages.py leaves alone, besides the notifier's data.
outside_analysis == <<circle_vars, send_vars, snopud_vars, zip_vars,
                      expand_vars>>

\* What parse_snopud_file leaves alone, besides the notifier's data.
outside_snopud == <<circle_vars, send_vars, analysis_vars, zip_vars,
                    expand_vars>>

\* What analyze_current_outages.py leaves alone: the notifier's data.
notifier_data == <<args, utility, all_files, file_index, is_first_file,
                   previous_file_df, current_file_df, json_error,
                   notifiable_new_outages,
                   notifiable_resolved_outages, notifiable_active_outages,
                   messages_to_send, notified_overall, notified_path,
                   notifiable_since_first>>

vars == <<program_vars, notified_overall, notified_path,
          notifiable_since_first, circle_vars,
          other_vars>>

\* send_notification has not been called on its own.
SendNotStarted ==
    /\ bot_token = FALSE
    /\ telegram_results = <<>>
    /\ notification_files = {}
    /\ now = 0
    /\ earlier_events = {}

\* analyze_current_outages.py has not been started.
AnalysisNotStarted ==
    /\ outage_updates_df = {}
    /\ analysis_new_outages = {}
    /\ analysis_resolved_outages = {}

\* parse_snopud_file has not been called on its own.
SnopudNotStarted ==
    /\ placemarks = <<>>
    /\ snopud_rows = <<>>

\* zip_utils has been imported and load_zip_codes not called.
ZipNotStarted ==
    /\ zip_files = <<>>
    /\ zip_geo_df = {}
    /\ zip_returned = {}
    /\ zip_calls = 0
    /\ zip_reads = 0

\* expand.py has not been run.
NoArgs ==
    [incremental |-> FALSE, count_only |-> FALSE, limit |-> 0,
     start_datetime |-> {}, end_datetime |-> {}, path_exists |-> TRUE]

ExpandNotStarted ==
    /\ commits = <<>>
    /\ incremental_file = {}
    /\ expand_args = NoArgs
    /\ file_versions = <<>>
    /\ exported_versions = <<>>
    /\ files_exported = 0
    /\ newest_processed_filename = {}
    /\ incremental_written = FALSE
    /\ expand_exit = {}
    /\ expand_runs = 0

OthersNotStarted ==
    /\ SendNotStarted
    /\ AnalysisNotStarted
    /\ SnopudNotStarted
    /\ ZipNotStarted
    /\ ExpandNotStarted

\* main, lines 273-317, for a command line of `arguments` with -u `name` and a
\* directory holding one of `file_counts` snapshot files.
InitRun(arguments, file_counts, name) ==
    /\ args \in arguments
    /\ utility = name
    /\ json_error = FALSE
    /\ pc = "start"
    /\ exit_status = {}
    /\ all_files \in file_counts
    /\ file_index = 0
    /\ is_first_file = TRUE
    /\ previous_file_df = EmptyDataFrame
    /\ current_file_df = EmptyDataFrame
    /\ notifiable_new_outages = EmptyDataFrame
    /\ notifiable_resolved_outages = EmptyDataFrame
    /\ notifiable_active_outages = EmptyDataFrame
    /\ messages_to_send = <<>>
    /\ notified_overall = {}
    /\ notified_path = {}
    /\ notifiable_since_first = {}
    /\ array_of_arrays_of_points = <<>>
    /\ circle = {}
    /\ three_point_skipped = FALSE
    /\ OthersNotStarted

Init == InitRun({DefaultArgs}, 0..MaxFiles, "pse")

\* Variant of NotEnoughFiles: the run ends like a normal one.
NotEnoughFiles_status0 ==
    /\ pc = "start"
    /\ all_files < 2
    /\ pc' = "exit"
    /\ exit_status' = {0}
    /\ UNCHANGED <<all_files, file_index, is_first_file, previous_file_df,
                   current_file_df, notifiable_new_outages,
                   notifiable_resolved_outages, notifiable_active_outages,
                   messages_to_send, notified_overall, notified_path,
                   notifiable_since_first,
                   args, utility, json_error,
                   circle_vars, other_vars>>

\* main, lines 287-294: fewer than two files is fatal.
NotEnoughFiles ==
    /\ pc = "start"
    /\ all_files < 2
    /\ pc' = "exit"
    /\ exit_status' = {3}
    /\ UNCHANGED <<all_files, file_index, is_first_file, previous_file_df,
                   current_file_df, notifiable_new_outages,
                   notifiable_resolved_outages, notifiable_active_outages,
                   messages_to_send, notified_overall, notified_path,
                   notifiable_since_first,
                   args, utility, json_error,
                   circle_vars, other_vars>>

\* main, lines 292-317: enough files, enter the loop.
StartLoop ==
    /\ pc = "start"
    /\ ~(all_files < 2)
    /\ pc' = "loop"
    /\ UNCHANGED <<exit_status, all_files, file_index, is_first_file,
                   previous_file_df, current_file_df, notifiable_new_outages,
                   notifiable_resolved_outages, notifiable_active_outages,
                   messages_to_send, notified_overall, notified_path,
                   notifiable_since_first,
                   args, utility, json_error,
                   circle_vars, other_vars>>

\* Variant of PreviousForComparison: the previous file is never replaced.
StalePrevious == previous_file_df

\* main, line 328: the file read before this one is the previous file.
PreviousForComparison == current_file_df

\* The history kept in notifiable_since_first.  After the first file it holds
\* the overall-notifiable outages of that file; when a file is read, the pair
\* (prev, cur) of the comparison before it removes the outages that have
\* gone, are no longer notifiable or crossed the large-outage threshold.
NotifiableInFirst(df) ==
    {id \in outage_ids(df) : OverallNotifiable(RowOf(df, id))}
StillNotifiableSinceFirst(since, prev, cur) ==
    {id \in since :
        /\ id \in outage_ids(prev)
        /\ id \in outage_ids(cur)
        /\ OverallNotifiable(RowOf(cur, id))
        /\ ~ /\ RowOf(cur, id).customers_impacted
                  >= large_outage_customer_threshold
             /\ RowOf(prev, id).customers_impacted
                  < large_outage_customer_threshold}

\* Variant of ProcessFirstFile: the first file is compared with the empty
\* DataFrame that previous_file_df starts as.
ProcessFirstFile_compared ==
    /\ pc = "loop"
    /\ file_index < all_files
    /\ is_first_file
    /\ \E file \in SnapshotFiles(gmt_file_datetime(file_index + 1)) :
          LET df == AddCalculatedColumns(ParsedRows(file),
                                         gmt_file_datetime(file_index + 1))
              nnew == {r \in new_outages(EmptyDataFrame, df) :
                          NotifiableNewFilter(r)}
          IN  /\ ~ParseRaises(utility, file)
              /\ current_file_df' = df
              /\ previous_file_df' = df
              /\ json_error' = ~file.valid
              /\ notifiable_since_first' = NotifiableInFirst(df)
              /\ notifiable_new_outages' = nnew
              /\ messages_to_send' =
                    MessagesToSend(nnew, EmptyDataFrame, EmptyDataFrame)
    /\ is_first_file' = FALSE
    /\ file_index' = file_index + 1
    /\ UNCHANGED <<pc, exit_status, all_files, notifiable_resolved_outages,
                   notifiable_active_outages, notified_overall, notified_path,
                   args, utility, circle_vars, other_vars>>

\* main, lines 318-375: the first file only becomes the previous one.  When
\* the parser raises, the process ends there with a traceback (status 1).
ProcessFirstFile ==
    /\ pc = "loop"
    /\ file_index < all_files
    /\ is_first_file
    /\ \E file \in SnapshotFiles(gmt_file_datetime(file_index + 1)) :
          IF ParseRaises(utility, file)
          THEN /\ pc' = "raised"
               /\ exit_status' = {1}
               /\ json_error' = TRUE
               /\ previous_file_df' = PreviousForComparison
               /\ UNCHANGED <<current_file_df, is_first_file,
                              notifiable_since_first>>
          ELSE LET df == AddCalculatedColumns(ParsedRows(file),
                                              gmt_file_datetime(file_index + 1))
               IN  /\ current_file_df' = df
                   /\ previous_file_df' = df
                   /\ json_error' = ~file.valid
                   /\ notifiable_since_first' = NotifiableInFirst(df)
                   /\ is_first_file' = FALSE
                   /\ UNCHANGED <<pc, exit_status>>
    /\ file_index' = file_index + 1
    /\ UNCHANGED <<all_files, notifiable_new_outages,
                   notifiable_resolved_outages, notifiable_active_outages,
                   messages_to_send, notified_overall, notified_path,
                   args, utility, circle_vars, other_vars>>

\* main, lines 318-532: every later file is compared with the one before it.
\* When the parser or determine_notification_reason raises, the process ends
\* there with a traceback (status 1) and nothing of this comparison is sent.
ProcessFile ==
    /\ pc = "loop"
    /\ file_index < all_files
    /\ ~is_first_file
    /\ \E file \in SnapshotFiles(gmt_file_datetime(file_index + 1)) :
        IF ParseRaises(utility, file)
        THEN /\ pc' = "raised"
             /\ exit_status' = {1}
             /\ json_error' = TRUE
             /\ previous_file_df' = PreviousForComparison
             /\ messages_to_send' = <<>>
             /\ UNCHANGED <<current_file_df, notifiable_new_outages,
                            notifiable_resolved_outages,
                            notifiable_active_outages, notified_overall,
                            notified_path>>
        ELSE
          LET prev == PreviousForComparison
              cur == AddCalculatedColumns(ParsedRows(file),
                                          gmt_file_datetime(file_index + 1))
              nnew == {r \in new_outages(prev, cur) : NotifiableNewFilter(r)}
              nres == {r \in resolved_outages(prev, cur) :
                          NotifiableResolvedFilter(r)}
              nmerged == {m \in active_merged(active_outages(prev, cur), prev) :
                             NotifiableActiveFilter(m)}
              raises == \E m \in nmerged : ReasonRaises(m, prev)
              nact == {WithReasonRenamed(m) : m \in nmerged}
          IN  /\ previous_file_df' = prev
              /\ current_file_df' = cur
              /\ json_error' = ~file.valid
              /\ notifiable_new_outages' = nnew
              /\ notifiable_resolved_outages' = nres
              /\ notifiable_active_outages' = IF raises THEN nmerged ELSE nact
              /\ messages_to_send' =
                    IF raises THEN <<>> ELSE MessagesToSend(nnew, nact, nres)
              /\ pc' = IF raises THEN "raised" ELSE pc
              /\ exit_status' = IF raises THEN {1} ELSE exit_status
              /\ notified_overall' =
                    {<<id, path>> \in OutageIds \X Paths :
                        /\ id \in outage_ids(cur)
                        /\ OverallNotifiable(RowOf(cur, id))
                        /\ \/ <<id, path>> \in notified_overall
                           \/ ~raises /\ FiredOnPath(nnew, nmerged, id, path)}
              /\ notified_path' =
                    {<<id, path>> \in OutageIds \X Paths :
                        /\ id \in outage_ids(cur)
                        /\ PathMet(path, RowOf(cur, id))
                        /\ \/ <<id, path>> \in notified_path
                           \/ ~raises /\ FiredOnPath(nnew, nmerged, id, path)}
    /\ notifiable_since_first' =
          StillNotifiableSinceFirst(notifiable_since_first, previous_file_df,
                                    current_file_df)
    /\ file_index' = file_index + 1
    /\ UNCHANGED <<args, utility, all_files, is_first_file, circle_vars,
                   other_vars>>

\* main, line 534: the loop is over, the process ends normally.
Completed ==
    /\ pc = "loop"
    /\ file_index = all_files
    /\ pc' = "done"
    /\ exit_status' = {0}
    /\ UNCHANGED <<all_files, file_index, is_first_file, previous_file_df,
                   current_file_df, notifiable_new_outages,
                   notifiable_resolved_outages, notifiable_active_outages,
                   messages_to_send, notified_overall, notified_path,
                   notifiable_since_first,
                   args, utility, json_error,
                   circle_vars, other_vars>>

Next ==
    \/ NotEnoughFiles
    \/ StartLoop
    \/ ProcessFirstFile
    \/ ProcessFile
    \/ Completed

Spec == Init /\ [][Next]_vars

\* The same program started with a negative threshold on its command line,
\* over directories of one file less.
InitNegative == InitRun(NegativeArgs, 0..(MaxFiles - 1), "pse")

SpecNegative == InitNegative /\ [][Next]_vars

\* The same program started with -u pge, over directories of one file less.
InitPge == InitRun({DefaultArgs}, 0..(MaxFiles - 1), "pge")

SpecPge == InitPge /\ [][Next]_vars

\* ---- smallest_enclosing_circle called on its own --------------------------
InitCircle ==
    /\ args = DefaultArgs
    /\ utility = "pse"
    /\ json_error = FALSE
    /\ pc = "start"
    /\ exit_status = {}
    /\ all_files = 0
    /\ file_index = 0
    /\ is_first_file = TRUE
    /\ previous_file_df = EmptyDataFrame
    /\ current_file_df = EmptyDataFrame
    /\ notifiable_new_outages = EmptyDataFrame
    /\ notifiable_resolved_outages = EmptyDataFrame
    /\ notifiable_active_outages = EmptyDataFrame
    /\ messages_to_send = <<>>
    /\ notified_overall = {}
    /\ notified_path = {}
    /\ notifiable_since_first = {}
    /\ \/ array_of_arrays_of_points = <<>>
       \/ \E n \in 0..MaxPoints : \E f \in FlatInputs(n) : \E cut \in 0..n :
             array_of_arrays_of_points = CircleInput(f, cut)
    /\ circle = {}
    /\ three_point_skipped = FALSE
    /\ OthersNotStarted

CallSmallestEnclosingCircle ==
    /\ circle = {}
    /\ LET run == smallest_enclosing_circle_run(array_of_arrays_of_points)
       IN  /\ circle' = {run.c}
           /\ three_point_skipped' = run.skipped
    /\ UNCHANGED <<program_vars, notified_overall, notified_path,
                   notifiable_since_first,
                   array_of_arrays_of_points, other_vars>>

NextCircle == CallSmallestEnclosingCircle

SpecCircle == InitCircle /\ [][NextCircle]_vars

\* ---- send_notification called on its own ---------------------------------
\* main, lines 385-500: the three DataFrames that main hands to
\* send_notification for a pair of files, and whether the comparison raises
\* before the call.
NotificationData(prev, cur) ==
    LET nmerged == {m \in active_merged(active_outages(prev, cur), prev) :
                       NotifiableActiveFilter(m)}
    IN  [new_outages |-> {r \in new_outages(prev, cur) : NotifiableNewFilter(r)},
         active_outages |-> {WithReasonRenamed(m) : m \in nmerged},
         resolved_outages |-> {r \in resolved_outages(prev, cur) :
                                  NotifiableResolvedFilter(r)},
         raises |-> \E m \in nmerged : ReasonRaises(m, prev)]

\* Line 226: notification_{msg_type}_{outage_id}_{timestamp}.txt, as its parts.
NotificationFilename(msg_type, outage_id, timestamp) ==
    <<"notification", msg_type, outage_id, timestamp, "txt">>

\* Lines 215-222: send_telegram_message is called only with a token and a chat
\* id; it returns True or False and never raises (lines 50-111).
TelegramOutcomes(credentials) ==
    IF credentials THEN {"sent", "failed"} ELSE {"skipped"}

\* Variant of SavedFiles: the file is written for a delivered message only.
SavedFiles_only_when_sent(files, message, outcome, timestamp) ==
    IF outcome = "sent"
    THEN files \cup {NotificationFilename(message[1], message[2], timestamp)}
    ELSE files

\* Lines 224-229: open(notification_path, 'w') creates the file, or replaces
\* the file of the same name.
SavedFiles(files, message, outcome, timestamp) ==
    files \cup {NotificationFilename(message[1], message[2], timestamp)}

\* The directories the call may find: empty, or holding the file of a New
\* event of INC1 written by an earlier call of the run.
EarlierEvents == {{}, {<<"new", "INC1">>}}

\* A call of send_notification by main (line 532) for the comparison of two
\* files, with or without Telegram credentials.
InitSend ==
    /\ args = DefaultArgs
    /\ utility = "pse"
    /\ json_error = FALSE
    /\ pc = "start"
    /\ exit_status = {}
    /\ all_files = 2
    /\ file_index = 2
    /\ is_first_file = FALSE
    /\ \E rows1 \in ParsedFiles(gmt_file_datetime(1)) :
       \E rows2 \in ParsedFiles(gmt_file_datetime(2)) :
          LET prev == AddCalculatedColumns(rows1, gmt_file_datetime(1))
              cur == AddCalculatedColumns(rows2, gmt_file_datetime(2))
              data == NotificationData(prev, cur)
          IN  /\ ~data.raises
              /\ previous_file_df = prev
              /\ current_file_df = cur
              /\ notifiable_new_outages = data.new_outages
              /\ notifiable_active_outages = data.active_outages
              /\ notifiable_resolved_outages = data.resolved_outages
    /\ messages_to_send = <<>>
    /\ notified_overall = {}
    /\ notified_path = {}
    /\ notifiable_since_first = {}
    /\ array_of_arrays_of_points = <<>>
    /\ circle = {}
    /\ three_point_skipped = FALSE
    /\ bot_token \in BOOLEAN
    /\ telegram_results = <<>>
    /\ now = 0
    /\ earlier_events \in EarlierEvents
    /\ notification_files =
          {NotificationFilename(e[1], e[2], 0) : e \in earlier_events}
    /\ AnalysisNotStarted
    /\ SnopudNotStarted
    /\ ZipNotStarted
    /\ ExpandNotStarted

\* main, line 519: no DataFrame has a row, send_notification is not called.
NothingToSend ==
    /\ pc = "start"
    /\ notifiable_new_outages = EmptyDataFrame
    /\ notifiable_resolved_outages = EmptyDataFrame
    /\ notifiable_active_outages = EmptyDataFrame
    /\ pc' = "returned"
    /\ UNCHANGED <<args, utility, json_error, exit_status, all_files,
                   file_index, is_first_file,
                   previous_file_df, current_file_df, notifiable_new_outages,
                   notifiable_resolved_outages, notifiable_active_outages,
                   messages_to_send, notified_overall, notified_path,
                   notifiable_since_first,
                   outside_send, send_vars>>

\* send_notification, lines 119-210: the messages are built.
BuildMessages ==
    /\ pc = "start"
    /\ \/ notifiable_new_outages # EmptyDataFrame
       \/ notifiable_resolved_outages # EmptyDataFrame
       \/ notifiable_active_outages # EmptyDataFrame
    /\ messages_to_send' = MessagesToSend(notifiable_new_outages,
                                          notifiable_active_outages,
                                          notifiable_resolved_outages)
    /\ pc' = "sending"
    /\ UNCHANGED <<args, utility, json_error, exit_status, all_files,
                   file_index, is_first_file,
                   previous_file_df, current_file_df, notifiable_new_outages,
                   notifiable_resolved_outages, notifiable_active_outages,
                   notified_overall, notified_path,
                   notifiable_since_first, outside_send, send_vars>>

\* send_notification, lines 213-230: one turn of the sending loop.  The clock
\* may have moved to the next second when the timestamp is taken (line 225).
SendMessage ==
    /\ pc = "sending"
    /\ Len(telegram_results) < Len(messages_to_send)
    /\ \E outcome \in TelegramOutcomes(bot_token) :
       \E timestamp \in {now, now + 1} :
          /\ timestamp <= MaxSeconds
          /\ now' = timestamp
          /\ telegram_results' = Append(telegram_results, outcome)
          /\ notification_files' =
                SavedFiles(notification_files,
                           messages_to_send[Len(telegram_results) + 1],
                           outcome, timestamp)
    /\ UNCHANGED <<program_vars, notified_overall, notified_path,
                   notifiable_since_first, outside_send,
                   bot_token, earlier_events>>

\* send_notification, lines 231-236: the loop is over, the call returns.
ReturnFromSend ==
    /\ pc = "sending"
    /\ Len(telegram_results) = Len(messages_to_send)
    /\ pc' = "returned"
    /\ UNCHANGED <<args, utility, json_error, exit_status, all_files,
                   file_index, is_first_file,
                   previous_file_df, current_file_df, notifiable_new_outages,
                   notifiable_resolved_outages, notifiable_active_outages,
                   messages_to_send, notified_overall, notified_path,
                   notifiable_since_first,
                   outside_send, send_vars>>

NextSend ==
    \/ NothingToSend
    \/ BuildMessages
    \/ SendMessage
    \/ ReturnFromSend

SpecSend == InitSend /\ [][NextSend]_vars

\* ---- analyze_current_outages.py ------------------------------------------
\* main, lines 258-285: a command line -l 4 -c 100 -e 0.25, the elapsed-time
\* threshold held in minutes.
AnalysisArgs ==
    [length_threshold |-> 4,
     customer_threshold |-> 100,
     elapsed_time_threshold_minutes |-> 15]

GT(x, thr) == \E v \in x : v > thr
LE(x, thr) == \E v \in x : v <= thr

\* A cell of the est_restoration_time column as pd.read_csv returns it: a
\* time, NaN (an empty cell, or the "None" the SNOPUD parser writes, which is
\* one of read_csv's NA strings), or the text "none" the PSE parser writes.
EstTime(v) == [kind |-> "time", value |-> v]
EstNaN == [kind |-> "nan", value |-> 0]
EstNoneText == [kind |-> "text", value |-> 0]

\* analyze_current_outages.calculate_expected_length_minutes, lines 9-29: on
\* the text "none" pd.to_datetime raises, and the handler of line 27 reads
\* e.message, which no Python 3 exception has: AttributeError leaves the
\* function.
analysis_expected_length_raises(est_restoration_time) ==
    est_restoration_time.kind = "text"

analysis_expected_length_minutes(update_time, est_restoration_time) ==
    IF est_restoration_time.kind = "time"
    THEN {est_restoration_time.value - update_time}
    ELSE NONE

\* The rows create_outages_dataframe.py writes for one outage of the file of
\* time t: around the thresholds, with and without a restoration estimate.
CsvRowsOf(id, t, is_from_most_recent) ==
    IF id = "INC1"
    THEN [outage_id : {id},
          file_datetime : {t},
          customers_impacted : {100, 101},
          start_time : {t - 16},
          est_restoration_time : {EstNaN, EstTime(t + 240), EstTime(t + 241)},
          isFromMostRecent : {is_from_most_recent}]
    ELSE [outage_id : {id},
          file_datetime : {t},
          customers_impacted : {101},
          start_time : {t - 15, t - 16},
          est_restoration_time : {EstNoneText, EstTime(t + 241)},
          isFromMostRecent : {is_from_most_recent}]

CsvSnapshots(t, is_from_most_recent) ==
    {a \cup b :
        a \in {{}} \cup {{r} : r \in CsvRowsOf("INC1", t, is_from_most_recent)},
        b \in {{}} \cup {{r} : r \in CsvRowsOf("INC2", t, is_from_most_recent)}}

\* An older file of the directory: absent, or holding INC1 above every
\* threshold.
OlderSnapshots(t) ==
    {{}, {[outage_id |-> "INC1", file_datetime |-> t,
           customers_impacted |-> 101, start_time |-> t - 16,
           est_restoration_time |-> EstTime(t + 241),
           isFromMostRecent |-> FALSE]}}

\* Lines 294-342: the split of df into the latest and the previous snapshot.
unique_timestamps(rows) == {r.file_datetime : r \in rows}
Latest(times) == CHOOSE t \in times : \A u \in times : u <= t
latest_outages_df(rows) ==
    LET times == unique_timestamps(rows)
    IN  IF Cardinality(times) >= 2
        THEN {r \in rows : r.file_datetime = Latest(times)}
        ELSE IF \E r \in rows : ~r.isFromMostRecent THEN {} ELSE rows
previous_outages_df(rows) ==
    LET times == unique_timestamps(rows)
    IN  IF Cardinality(times) >= 2
        THEN {r \in rows : r.file_datetime = Latest(times \ {Latest(times)})}
        ELSE IF \E r \in rows : ~r.isFromMostRecent THEN rows ELSE {}

\* Lines 345-370: the two calculated columns of a snapshot, at its own time.
AnalysisColumns(rows) ==
    {[outage_id |-> r.outage_id,
      customers_impacted |-> r.customers_impacted,
      expected_length_minutes |->
          analysis_expected_length_minutes(r.file_datetime,
                                           r.est_restoration_time),
      elapsed_time_minutes |-> {r.file_datetime - r.start_time}]
     : r \in rows}

\* Lines 372-393: the left merge on outage_id and the filter of new_outages.
AnalysisNewFilter(r, previous) ==
    /\ GT(r.expected_length_minutes, AnalysisArgs.length_threshold * 60)
    /\ r.customers_impacted > AnalysisArgs.customer_threshold
    /\ GT(r.elapsed_time_minutes, AnalysisArgs.elapsed_time_threshold_minutes)
    /\ \/ r.outage_id \notin outage_ids(previous)
       \/ \E q \in previous :
             /\ q.outage_id = r.outage_id
             /\ \/ isna(q.expected_length_minutes)
                \/ LE(q.expected_length_minutes,
                      AnalysisArgs.length_threshold * 60)
                \/ q.customers_impacted <= AnalysisArgs.customer_threshold
                \/ isna(q.elapsed_time_minutes)
                \/ LE(q.elapsed_time_minutes,
                      AnalysisArgs.elapsed_time_threshold_minutes)

\* Lines 397-403: the previous outages that met the thresholds.
significant_previous(previous) ==
    {q \in previous :
        /\ GT(q.expected_length_minutes, AnalysisArgs.length_threshold * 60)
        /\ q.customers_impacted > AnalysisArgs.customer_threshold
        /\ GT(q.elapsed_time_minutes,
              AnalysisArgs.elapsed_time_threshold_minutes)}

InitAnalysis ==
    /\ args = DefaultArgs
    /\ utility = "pse"
    /\ json_error = FALSE
    /\ pc = "start"
    /\ exit_status = {}
    /\ all_files = 0
    /\ file_index = 0
    /\ is_first_file = TRUE
    /\ previous_file_df = EmptyDataFrame
    /\ current_file_df = EmptyDataFrame
    /\ notifiable_new_outages = EmptyDataFrame
    /\ notifiable_resolved_outages = EmptyDataFrame
    /\ notifiable_active_outages = EmptyDataFrame
    /\ messages_to_send = <<>>
    /\ notified_overall = {}
    /\ notified_path = {}
    /\ notifiable_since_first = {}
    /\ array_of_arrays_of_points = <<>>
    /\ circle = {}
    /\ three_point_skipped = FALSE
    /\ SendNotStarted
    /\ SnopudNotStarted
    /\ ZipNotStarted
    /\ ExpandNotStarted
    /\ \E older \in OlderSnapshots(gmt_file_datetime(1)) :
       \E before \in CsvSnapshots(gmt_file_datetime(2), FALSE) :
       \E last \in CsvSnapshots(gmt_file_datetime(3), TRUE) :
          outage_updates_df = older \cup before \cup last
    /\ analysis_new_outages = {}
    /\ analysis_resolved_outages = {}

\* main, lines 291-342: the CSV file has no row, main returns.
NoSnapshotData ==
    /\ pc = "start"
    /\ outage_updates_df = {}
    /\ pc' = "no_data"
    /\ exit_status' = {0}
    /\ UNCHANGED <<notifier_data, outside_analysis, analysis_vars>>

\* main, lines 291-460: the comparison of the two most recent snapshots.  An
\* exception in a calculated column ends the process with a traceback.
AnalyzeCurrentOutages ==
    /\ pc = "start"
    /\ outage_updates_df # {}
    /\ LET latest_rows == latest_outages_df(outage_updates_df)
           previous_rows == previous_outages_df(outage_updates_df)
           raises == \E r \in latest_rows \cup previous_rows :
                        analysis_expected_length_raises(r.est_restoration_time)
           latest == AnalysisColumns(latest_rows)
           previous == AnalysisColumns(previous_rows)
       IN  /\ pc' = IF raises THEN "raised" ELSE "completed"
           /\ exit_status' = IF raises THEN {1} ELSE {0}
           /\ analysis_new_outages' =
                 IF raises THEN {}
                 ELSE {r \in latest : AnalysisNewFilter(r, previous)}
           /\ analysis_resolved_outages' =
                 IF raises THEN {}
                 ELSE {q \in significant_previous(previous) :
                          q.outage_id \notin outage_ids(latest)}
    /\ UNCHANGED <<notifier_data, outside_analysis, outage_updates_df>>

NextAnalysis ==
    \/ NoSnapshotData
    \/ AnalyzeCurrentOutages

SpecAnalysis == InitAnalysis /\ [][NextAnalysis]_vars

\* ---- outage_utils.parse_snopud_file called on its own ---------------------
\* The notifier and smallest_enclosing_circle (as a call of its own) have not
\* been started.
NotifierNotStarted ==
    /\ args = DefaultArgs
    /\ utility = "pse"
    /\ json_error = FALSE
    /\ pc = "start"
    /\ exit_status = {}
    /\ all_files = 0
    /\ file_index = 0
    /\ is_first_file = TRUE
    /\ previous_file_df = EmptyDataFrame
    /\ current_file_df = EmptyDataFrame
    /\ notifiable_new_outages = EmptyDataFrame
    /\ notifiable_resolved_outages = EmptyDataFrame
    /\ notifiable_active_outages = EmptyDataFrame
    /\ messages_to_send = <<>>
    /\ notified_overall = {}
    /\ notified_path = {}
    /\ notifiable_since_first = {}

CircleNotStarted ==
    /\ array_of_arrays_of_points = <<>>
    /\ circle = {}
    /\ three_point_skipped = FALSE

\* A StartUTC value is <<second, fraction>>: the time to the second and the
\* digits after the decimal point.  Two placemarks of one second, one of
\* another; customers of -1 mark a placeholder entry.
StartUTCValues == {<<10, 0>>, <<10, 5>>, <<20, 0>>}
EstCustomersOutValues == {0 - 1, 3, 5}
PolygonValues == {<< <<0, 0>>, <<2, 0>> >>, << <<4, 0>>, <<0, 2>> >>}

Placemark(name, start, customers, polygon) ==
    [name |-> name, StartUTC |-> start, EstCustomersOut |-> customers,
     coordinates |-> polygon]

\* Lines 294 and 302: datetime.fromisoformat keeps the fraction of the second;
\* strftime("%Y%m%d%H%M%S") writes the time to the second.
start_time_key(pm) == pm.StartUTC[1]

\* Lines 277-308: placemark_data, the placemarks without the placeholders.
NotPlaceholder(pm) == pm.EstCustomersOut # 0 - 1
placemark_data(pms) == SelectSeq(pms, NotPlaceholder)

\* Line 317: groupby('start_time_key') yields the keys in ascending order.
RECURSIVE SortedKeys(_)
SortedKeys(keys) ==
    IF keys = {} THEN <<>>
    ELSE LET least == CHOOSE k \in keys : \A other \in keys : k <= other
         IN  <<least>> \o SortedKeys(keys \ {least})

RECURSIVE SumCustomers(_)
SumCustomers(group) ==
    IF group = <<>> THEN 0
    ELSE Head(group).EstCustomersOut + SumCustomers(Tail(group))

\* Lines 317-325: the placemarks of one group, in file order.
GroupOf(data, key) ==
    LET Same(pm) == start_time_key(pm) = key
    IN  SelectSeq(data, Same)

\* Lines 328-365: the row of one group.
SnopudRow(group) ==
    LET all_polygons == [i \in 1..Len(group) |-> group[i].coordinates]
    IN  [outage_id |-> start_time_key(group[1]),
         start_time |-> start_time_key(group[1]),
         customers_impacted |-> SumCustomers(group),
         polygons |-> all_polygons,
         circle |-> smallest_enclosing_circle(all_polygons)]

\* Lines 310-365: the rows appended for the placemarks pms.
parse_snopud_rows(pms) ==
    LET data == placemark_data(pms)
        keys == SortedKeys({start_time_key(data[i]) : i \in DOMAIN data})
    IN  [k \in 1..Len(keys) |-> SnopudRow(GroupOf(data, keys[k]))]

InitSnopud ==
    /\ NotifierNotStarted
    /\ CircleNotStarted
    /\ SendNotStarted
    /\ AnalysisNotStarted
    /\ ZipNotStarted
    /\ ExpandNotStarted
    /\ \E n \in 0..MaxPlacemarks :
       \E start \in [1..n -> StartUTCValues] :
       \E customers \in [1..n -> EstCustomersOutValues] :
       \E polygon \in [1..n -> PolygonValues] :
          placemarks = [i \in 1..n |->
                           Placemark(i, start[i], customers[i], polygon[i])]
    /\ snopud_rows = <<>>

\* Line 277: root.Document.Folder.Placemark on a Folder without a Placemark
\* child; lxml.objectify raises AttributeError, which lines 264-272 do not
\* cover.
ParseSnopudFileWithoutPlacemark ==
    /\ pc = "start"
    /\ placemarks = <<>>
    /\ pc' = "raised"
    /\ exit_status' = {1}
    /\ UNCHANGED <<notifier_data, outside_snopud, snopud_vars>>

\* Lines 263-365: the call on a file with placemarks.
ParseSnopudFile ==
    /\ pc = "start"
    /\ placemarks # <<>>
    /\ snopud_rows' = parse_snopud_rows(placemarks)
    /\ pc' = "parsed"
    /\ UNCHANGED <<exit_status, notifier_data, outside_snopud, placemarks>>

NextSnopud ==
    \/ ParseSnopudFileWithoutPlacemark
    \/ ParseSnopudFile

SpecSnopud == InitSnopud /\ [][NextSnopud]_vars

\* ---- zip_utils.load_zip_codes ---------------------------------------------
\* The arguments of the calls: None (the default file) or a path.
ZipPaths == {"default", "wa.json", "ca.json"}
ZipFileStates == {"missing", "unreadable", "good"}

\* Lines 22-38: the value returned.  With _zip_geo_df already set the body of
\* the `if` is skipped and the function ends without a return statement.
load_zip_codes_return(cached, path, state) ==
    IF cached # NONE THEN NONE
    ELSE IF state = "good" THEN {path} ELSE NONE

InitZip ==
    /\ NotifierNotStarted
    /\ CircleNotStarted
    /\ SendNotStarted
    /\ AnalysisNotStarted
    /\ SnopudNotStarted
    /\ ExpandNotStarted
    /\ zip_files \in [ZipPaths -> ZipFileStates]
    /\ zip_geo_df = NONE
    /\ zip_returned = NONE
    /\ zip_calls = 0
    /\ zip_reads = 0

\* Lines 12-38: one call of load_zip_codes(zip_file_path).
LoadZipCodes ==
    /\ zip_calls < MaxCalls
    /\ \E path \in ZipPaths :
          /\ zip_returned' =
                load_zip_codes_return(zip_geo_df, path, zip_files[path])
          /\ zip_geo_df' =
                IF zip_geo_df = NONE /\ zip_files[path] = "good"
                THEN {path} ELSE zip_geo_df
          /\ zip_reads' =
                IF zip_geo_df = NONE /\ zip_files[path] # "missing"
                THEN zip_reads + 1 ELSE zip_reads
    /\ zip_calls' = zip_calls + 1
    /\ UNCHANGED <<program_vars, notified_overall, notified_path,
                   notifiable_since_first, circle_vars,
                   send_vars, analysis_vars, snopud_vars, zip_files,
                   expand_vars>>

NextZip == LoadZipCodes

SpecZip == InitZip /\ [][NextZip]_vars

\* ---- expand.py ---------------------------------------------------------------
\* Times are whole units on a small scale.  A commit carries the instant it
\* was authored (utc), the offset of the author's time zone (whole units too),
\* the type of its diff for the file ('A', 'M' and 'R' behave alike: "M") and
\* whether `git show commit:rel_path` gives the content.
Offsets == {0 - 1, 0, 1}
Commits ==
    {c \in [utc : 1..MaxTime, offset : Offsets, type : {"M", "D"},
            show : BOOLEAN] : c.type = "D" => c.show}

\* datetime.min and datetime.now(timezone.utc): before and after every commit.
DatetimeMin == 0 - 2
DatetimeNow == MaxTime + 1

\* versions, line 60: authored_datetime.strftime(DATE_TIME_FORMAT), the wall
\* clock of the author followed by the offset.
Timestamp(c) == <<c.utc + c.offset, c.offset>>

\* main, lines 309-314: strptime with %z, then astimezone(timezone.utc).
timestamp_dt(timestamp) == timestamp[1] - timestamp[2]

\* main, lines 344-345: the export file name keeps the wall clock and drops
\* the offset; the base name of the file follows it.
export_filename(timestamp) == <<timestamp[1], "-filename">>

\* What the incremental file may hold when the program did not write it.
InvalidContent == <<0, "other text">>

\* get_last_processed_timestamp, lines 124-165: None when the file does not
\* exist or does not hold TIMESTAMP-filename; else the timestamp part, read
\* with the offset +0000.
get_last_processed_timestamp(file) ==
    IF file = {} THEN {}
    ELSE {content[1] : content \in {x \in file : x[2] = "-filename"}}

\* main, lines 193-218.
start_date_utc(a, file) ==
    IF a.incremental
    THEN IF get_last_processed_timestamp(file) # {}
         THEN CHOOSE t \in get_last_processed_timestamp(file) : TRUE
         ELSE DatetimeMin
    ELSE IF a.start_datetime # {}
         THEN CHOOSE t \in a.start_datetime : TRUE
         ELSE DatetimeMin

end_date_utc(a) ==
    IF a.incremental \/ a.end_datetime = {} THEN DatetimeNow
    ELSE CHOOSE t \in a.end_datetime : TRUE

\* Variant of InDateRange: the lower bound is exclusive.
InDateRange_exclusive(t, start, end) == t > start /\ t <= end

\* main, line 315.
InDateRange(t, start, end) == t >= start /\ t <= end

\* versions, line 31: iter_commits(branch, max_count=count); main, lines
\* 285-288: no limit is max_count = -1, every commit.
iter_commits(all_commits, limit) ==
    IF limit > 0 /\ limit < Len(all_commits)
    THEN SubSeq(all_commits, 1, limit)
    ELSE all_commits

\* main, lines 303-316.
FileVersions(all_commits, a, file) ==
    LET Selected(c) == InDateRange(timestamp_dt(Timestamp(c)),
                                   start_date_utc(a, file), end_date_utc(a))
    IN  SelectSeq(iter_commits(all_commits, a.limit), Selected)

\* main, lines 329-371: deleted versions are skipped, a version whose content
\* git cannot show is reported and not counted.
ExportedVersions(versions) ==
    LET Exported(c) == c.type # "D" /\ c.show
    IN  SelectSeq(versions, Exported)

\* Variant of NewestProcessedFilename: the last file exported.
NewestProcessedFilename_last(exported) ==
    IF exported = <<>> THEN {}
    ELSE {export_filename(Timestamp(exported[Len(exported)]))}

\* main, lines 324 and 359-361: the first file exported.
NewestProcessedFilename(exported) ==
    IF exported = <<>> THEN {}
    ELSE {export_filename(Timestamp(exported[1]))}

\* Variant of ExitStatus: status 0 whatever was exported.
ExitStatus_always0(exported) == 0

\* main, lines 385-390.
ExitStatus(exported) == IF exported > 0 THEN 0 ELSE 1

ExpandArgs ==
    [incremental : BOOLEAN, count_only : BOOLEAN, limit : {0, 1},
     start_datetime : {{}, {MaxTime}}, end_datetime : {{}, {1}},
     path_exists : BOOLEAN]

InitExpand ==
    /\ NotifierNotStarted
    /\ CircleNotStarted
    /\ SendNotStarted
    /\ AnalysisNotStarted
    /\ SnopudNotStarted
    /\ ZipNotStarted
    /\ commits = <<>>
    /\ incremental_file \in {{}, {InvalidContent}}
    /\ expand_args = NoArgs
    /\ file_versions = <<>>
    /\ exported_versions = <<>>
    /\ files_exported = 0
    /\ newest_processed_filename = {}
    /\ incremental_written = FALSE
    /\ expand_exit = {}
    /\ expand_runs = 0

outside_expand ==
    <<program_vars, notified_overall, notified_path, notifiable_since_first,
      circle_vars, send_vars, analysis_vars, snopud_vars, zip_vars>>

\* Between two runs a commit lands on the branch.
NewCommit ==
    /\ Len(commits) < MaxCommits
    /\ \E c \in Commits : commits' = <<c>> \o commits
    /\ UNCHANGED <<incremental_file, expand_args, file_versions,
                   exported_versions, files_exported,
                   newest_processed_filename, incremental_written,
                   expand_exit, expand_runs, outside_expand>>

\* main, lines 220-240: the file or its repository is not found, sys.exit(1).
ExpandWithoutFile ==
    /\ expand_runs < MaxRuns
    /\ \E a \in ExpandArgs :
          /\ ~a.path_exists
          /\ expand_args' = a
    /\ file_versions' = <<>>
    /\ exported_versions' = <<>>
    /\ files_exported' = 0
    /\ newest_processed_filename' = {}
    /\ incremental_written' = FALSE
    /\ expand_exit' = {1}
    /\ expand_runs' = expand_runs + 1
    /\ UNCHANGED <<commits, incremental_file, outside_expand>>

\* main, lines 291-320: count-only mode returns before the export, the
\* process ends with status 0.
ExpandCountOnly ==
    /\ expand_runs < MaxRuns
    /\ \E a \in ExpandArgs :
          /\ a.path_exists
          /\ a.count_only
          /\ expand_args' = a
          /\ file_versions' =
                IF a.incremental \/ a.start_datetime # {} \/ a.end_datetime # {}
                THEN FileVersions(commits, a, incremental_file)
                ELSE <<>>
    /\ exported_versions' = <<>>
    /\ files_exported' = 0
    /\ newest_processed_filename' = {}
    /\ incremental_written' = FALSE
    /\ expand_exit' = {0}
    /\ expand_runs' = expand_runs + 1
    /\ UNCHANGED <<commits, incremental_file, outside_expand>>

\* main, lines 168-390: a run that exports.
Expand ==
    /\ expand_runs < MaxRuns
    /\ \E a \in ExpandArgs :
          LET versions == FileVersions(commits, a, incremental_file)
              exported == ExportedVersions(versions)
              newest == NewestProcessedFilename(exported)
              written == a.incremental /\ Len(exported) > 0 /\ newest # {}
          IN  /\ a.path_exists
              /\ ~a.count_only
              /\ expand_args' = a
              /\ file_versions' = versions
              /\ exported_versions' = exported
              /\ files_exported' = Len(exported)
              /\ newest_processed_filename' = newest
              /\ incremental_written' = written
              /\ incremental_file' = IF written THEN newest
                                     ELSE incremental_file
              /\ expand_exit' = {ExitStatus(Len(exported))}
    /\ expand_runs' = expand_runs + 1
    /\ UNCHANGED <<commits, outside_expand>>

NextExpand ==
    \/ NewCommit
    \/ ExpandWithoutFile
    \/ ExpandCountOnly
    \/ Expand

SpecExpand == InitExpand /\ [][NextExpand]_vars

\* ---- reading a state ----------------------------------------------------
\* After the second file, previous_file_df and current_file_df are the pair
\* of the last comparison and messages_to_send its events.
Compared == file_index >= 2
InPrevious(id) == id \in outage_ids(previous_file_df)
InCurrent(id) == id \in outage_ids(current_file_df)
PreviousRecord(id) == RowOf(previous_file_df, id)
CurrentRecord(id) == RowOf(current_file_df, id)
MessagesOf(msg_type, id) ==
    {i \in DOMAIN messages_to_send :
        messages_to_send[i][1] = msg_type /\ messages_to_send[i][2] = id}
NewEvent(id) == MessagesOf("new", id) # {}
EscalatedEvent(id) == MessagesOf("escalated", id) # {}
ResolvedEvent(id) == MessagesOf("resolved", id) # {}
\* The merged rows of the outages escalated by the last comparison.
EscalatedMerged ==
    {m \in active_merged(active_outages(previous_file_df, current_file_df),
                         previous_file_df) : EscalatedEvent(m.outage_id)}
LargeCrossing(id) ==
    /\ CurrentRecord(id).customers_impacted >= large_outage_customer_threshold
    /\ PreviousRecord(id).customers_impacted < large_outage_customer_threshold

\* ---- C1 -------------------------------------------------------------------
\* C1 as claimed: for an outage present in both files of a comparison, an
\* Escalated event is emitted iff (the current record is overall-notifiable
\* and the previous one was not) or the customers crossed the large-outage
\* threshold upward.
C1_EscalatedIffOverallTransition ==
    Compared =>
        \A id \in OutageIds :
            (InPrevious(id) /\ InCurrent(id)) =>
                (EscalatedEvent(id) <=>
                    \/ /\ OverallNotifiable(CurrentRecord(id))
                       /\ ~OverallNotifiable(PreviousRecord(id))
                    \/ LargeCrossing(id))

\* An outage that was notifiable through the large-outage threshold alone
\* comes to meet the primary thresholds, and is escalated.
C1_Witness ==
    /\ Compared
    /\ \E id \in OutageIds :
          /\ InPrevious(id) /\ InCurrent(id)
          /\ LargeMet(PreviousRecord(id)) /\ ~PrimaryMet(PreviousRecord(id))
          /\ PrimaryMet(CurrentRecord(id))
          /\ EscalatedEvent(id)

\* ---- C2 -------------------------------------------------------------------
\* C2: after every comparison, a New event is emitted for an outage id exactly
\* when the id is in the current file, not in the previous file, and its
\* current record is overall-notifiable (also when the previous file is empty).
C2_NewIffBrandNewAndNotifiable ==
    Compared =>
        \A id \in OutageIds :
            NewEvent(id) <=>
                /\ InCurrent(id)
                /\ ~InPrevious(id)
                /\ OverallNotifiable(CurrentRecord(id))

\* A New event after an empty previous file.
C2_Witness ==
    /\ Compared
    /\ previous_file_df = EmptyDataFrame
    /\ \E id \in OutageIds : NewEvent(id)

\* ---- C3 -------------------------------------------------------------------
\* The previous record of id with its durations derived from its raw times
\* at the time of the previous file.
PreviousRecordAtItsTime(id) ==
    LET r == PreviousRecord(id)
        t == gmt_file_datetime(file_index - 1)
    IN  [customers_impacted |-> r.customers_impacted,
         expected_length_minutes |->
            IF r.est_restoration_time = NONE THEN NONE
            ELSE {e - t : e \in r.est_restoration_time},
         elapsed_time_minutes |-> {t - r.start_time}]

\* C3: after every comparison, a Resolved event is emitted for an outage id
\* exactly when the id is in the previous file, not in the current file (which
\* may be empty), and the previous record, with its durations as of the
\* previous file's time, is overall-notifiable.
C3_ResolvedIffVanishedAndNotifiable ==
    Compared =>
        \A id \in OutageIds :
            ResolvedEvent(id) <=>
                /\ InPrevious(id)
                /\ ~InCurrent(id)
                /\ OverallNotifiable(PreviousRecordAtItsTime(id))

\* A Resolved event after an empty current file, while another outage that
\* was not notifiable disappears silently.
C3_Witness ==
    /\ Compared
    /\ current_file_df = EmptyDataFrame
    /\ \E id \in OutageIds : ResolvedEvent(id)
    /\ \E id \in OutageIds : InPrevious(id) /\ ~ResolvedEvent(id)

\* ---- C4 -------------------------------------------------------------------
\* C4: the step that processes the first file emits no event, whatever the
\* file holds, and leaves the file as previous_file_df; the next step compares
\* the second file with it.
C4_FirstFileOnlyBecomesPrevious ==
    /\ [][(is_first_file /\ ~is_first_file') =>
            /\ messages_to_send' = <<>>
            /\ notifiable_new_outages' = EmptyDataFrame
            /\ notifiable_resolved_outages' = EmptyDataFrame
            /\ notifiable_active_outages' = EmptyDataFrame
            /\ previous_file_df' = current_file_df'
            /\ file_index' = 1]_vars
    /\ [][(file_index = 1 /\ file_index' = 2) =>
            previous_file_df' = current_file_df]_vars

\* The first file has been processed and holds a notifiable outage.
C4_Witness ==
    /\ file_index = 1
    /\ ~is_first_file
    /\ \E r \in current_file_df : OverallNotifiable(r)
    /\ messages_to_send = <<>>

C7_EveryCrossingNotified ==
    /\ [](Compared =>
            \A id \in OutageIds :
                (/\ InCurrent(id)
                 /\ OverallNotifiable(CurrentRecord(id))
                 /\ InPrevious(id) => ~OverallNotifiable(PreviousRecord(id)))
                => (NewEvent(id) \/ EscalatedEvent(id)))
    /\ [](pc = "done" => file_index = all_files)
    /\ [](\A r \in current_file_df :
            r.elapsed_time_minutes
                = {gmt_file_datetime(file_index) - r.start_time})
    /\ [][file_index' # file_index =>
            /\ file_index' = file_index + 1
            /\ file_index >= 1 => previous_file_df' = current_file_df]_vars

\* At the last of four files an outage that was not notifiable in the third
\* one crosses the thresholds and is notified.
C7_Witness ==
    /\ file_index = MaxFiles
    /\ \E id \in OutageIds :
          /\ InPrevious(id) /\ InCurrent(id)
          /\ ~OverallNotifiable(PreviousRecord(id))
          /\ OverallNotifiable(CurrentRecord(id))
          /\ EscalatedEvent(id)

\* ---- C8 -------------------------------------------------------------------
\* C8: with fewer than two files the run ends with status 3 before any file is
\* read, compared or notified; a run that ends normally ends with status 0 and
\* had at least two files; no run ends with both.
C8_InsufficientHistoryIsDistinct ==
    /\ all_files < 2 =>
          /\ pc \in {"start", "exit"}
          /\ file_index = 0
          /\ messages_to_send = <<>>
    /\ pc = "exit" => (exit_status = {3} /\ all_files < 2)
    /\ pc = "done" => (exit_status = {0} /\ all_files >= 2)
    /\ pc \in {"start", "loop"} => exit_status = {}

\* A run over one file has ended with status 3.
C8_Witness == all_files = 1 /\ exit_status = {3}

\* ---- C9 -------------------------------------------------------------------
\* C9: wherever the notifier evaluates a record (the new outages, the resolved
\* outages, the current side of the active outages), it is notifiable iff
\* primary_met or large_met, with primary_met the three inclusive comparisons
\* and false for a null expected length.
C9_NotifiableIffPrimaryOrLarge ==
    Compared =>
        /\ \A r \in new_outages(previous_file_df, current_file_df) :
              r \in notifiable_new_outages <=> OverallNotifiable(r)
        /\ \A r \in resolved_outages(previous_file_df, current_file_df) :
              r \in notifiable_resolved_outages <=> OverallNotifiable(r)
        /\ \A m \in active_merged(active_outages(previous_file_df,
                                                 current_file_df),
                                  previous_file_df) :
              primary_thresholds_met(m)
                  <=> PrimaryMet(RowOf(current_file_df, m.outage_id))
        /\ \A r \in notifiable_new_outages \cup notifiable_resolved_outages :
              isna(r.expected_length_minutes) => LargeMet(r)

\* A new outage with no restoration estimate is notified because it is large,
\* and another is notified with each primary value exactly at its threshold.
C9_Witness ==
    /\ Compared
    /\ \E r \in notifiable_new_outages :
          isna(r.expected_length_minutes) /\ LargeMet(r)
    /\ \E r \in notifiable_new_outages :
          /\ r.expected_length_minutes = {expected_length_threshold_minutes}
          /\ r.customers_impacted = customer_threshold
          /\ r.elapsed_time_minutes = {elapsed_time_threshold_minutes}

\* ---- C10 ------------------------------------------------------------------
\* C10: for an outage present in both files, an upward crossing of the
\* large-outage threshold is escalated whatever the primary criteria were, and
\* an outage that was already at or above the large-outage threshold is
\* escalated only if it newly meets the primary thresholds.
C10_LargePathFiresOnCrossingOnly ==
    Compared =>
        \A id \in OutageIds :
            (InPrevious(id) /\ InCurrent(id)) =>
                /\ LargeCrossing(id) => EscalatedEvent(id)
                /\ (LargeMet(PreviousRecord(id)) /\ EscalatedEvent(id)) =>
                      (/\ PrimaryMet(CurrentRecord(id))
                       /\ ~PrimaryMet(PreviousRecord(id)))

\* An outage that already met the primary thresholds crosses the large-outage
\* threshold and is escalated.
C10_Witness ==
    /\ Compared
    /\ \E id \in OutageIds :
          /\ InPrevious(id) /\ InCurrent(id)
          /\ PrimaryMet(PreviousRecord(id))
          /\ LargeCrossing(id)
          /\ EscalatedEvent(id)

\* ---- C11 ------------------------------------------------------------------
\* The merged rows the last comparison found notifiable: the rows
\* determine_notification_reason is applied to.
NotifiableMerged ==
    {m \in active_merged(active_outages(previous_file_df, current_file_df),
                         previous_file_df) : NotifiableActiveFilter(m)}

\* C11: after every comparison, an outage present in both files that newly
\* meets the primary thresholds and crosses the large-outage threshold at the
\* same step has exactly one Escalated message.
C11_OneEscalatedForBothPaths ==
    Compared =>
        \A m \in NotifiableMerged :
            (EscalationCause(m, "primary") /\ EscalationCause(m, "large"))
                => Cardinality(MessagesOf("escalated", m.outage_id)) = 1

\* An outage goes from 50 customers with no restoration estimate to 1000 or
\* more with every primary criterion met, in a previous file that holds no
\* estimate at all: the run has ended in the annotation of the reason and no
\* message was sent.
C11_Witness ==
    /\ Compared
    /\ \E m \in NotifiableMerged :
          /\ EscalationCause(m, "primary") /\ EscalationCause(m, "large")
          /\ m.customers_impacted_previous < customer_threshold
          /\ MessagesOf("escalated", m.outage_id) = {}
          /\ pc = "raised"

\* ---- C12 ------------------------------------------------------------------
\* C12: after every comparison, an outage whose current record is not
\* overall-notifiable has neither a New nor an Escalated message, and an outage
\* that is in both files and overall-notifiable in neither has no message of
\* any type.
C12_NoEventBelowThresholds ==
    Compared =>
        \A id \in OutageIds :
            /\ (InCurrent(id) /\ ~OverallNotifiable(CurrentRecord(id)))
                  => (~NewEvent(id) /\ ~EscalatedEvent(id))
            /\ (/\ InPrevious(id) /\ InCurrent(id)
                /\ ~OverallNotifiable(PreviousRecord(id))
                /\ ~OverallNotifiable(CurrentRecord(id)))
                  => \A i \in DOMAIN messages_to_send :
                         messages_to_send[i][2] # id

\* An outage stays at 50 customers, with its primary criteria otherwise met
\* now and not before, while the other outage of the file is notified: no
\* message is about the first one.
C12_Witness ==
    /\ Compared
    /\ Len(messages_to_send) > 0
    /\ \E id \in OutageIds :
          /\ InPrevious(id) /\ InCurrent(id)
          /\ PreviousRecord(id).customers_impacted < customer_threshold
          /\ CurrentRecord(id).customers_impacted < customer_threshold
          /\ isna(PreviousRecord(id).expected_length_minutes)
          /\ GE(CurrentRecord(id).expected_length_minutes,
                expected_length_threshold_minutes)
          /\ \A i \in DOMAIN messages_to_send : messages_to_send[i][2] # id

\* ---- C13 ------------------------------------------------------------------
\* The reason C13 describes for a merged row: a fragment for each primary
\* criterion not met by the previous record and met by the current one, in the
\* order expected length, customers, elapsed time, then the large-outage
\* fragment iff the large-outage threshold was crossed; the fallback if there
\* is none.
ClaimedReason(m) ==
    LET fragments ==
            (IF /\ ~GE(m.expected_length_minutes_previous,
                       expected_length_threshold_minutes)
                /\ GE(m.expected_length_minutes_current,
                      expected_length_threshold_minutes)
             THEN <<ReasonFragment("expected_length",
                                   m.expected_length_minutes_previous,
                                   m.expected_length_minutes_current)>>
             ELSE <<>>)
            \o (IF /\ m.customers_impacted_previous < customer_threshold
                   /\ m.customers_impacted_current >= customer_threshold
                THEN <<ReasonFragment("customers",
                                      {m.customers_impacted_previous},
                                      {m.customers_impacted_current})>>
                ELSE <<>>)
            \o (IF /\ ~GE(m.elapsed_time_minutes_previous,
                          elapsed_time_threshold_minutes)
                   /\ GE(m.elapsed_time_minutes_current,
                         elapsed_time_threshold_minutes)
                THEN <<ReasonFragment("elapsed_time",
                                      m.elapsed_time_minutes_previous,
                                      m.elapsed_time_minutes_current)>>
                ELSE <<>>)
            \o (IF /\ m.customers_impacted_current
                        >= large_outage_customer_threshold
                   /\ m.customers_impacted_previous
                        < large_outage_customer_threshold
                THEN <<ReasonFragment("customers",
                                      {m.customers_impacted_previous},
                                      {m.customers_impacted_current})>>
                ELSE <<>>)
    IN  IF fragments # <<>> THEN fragments ELSE <<UnknownReason>>

\* C13: after every comparison, every row determine_notification_reason was
\* applied to has a reason, and the reason of every Escalated message is the
\* non-empty list of fragments that C13 describes.
C13_ReasonListsFlippedCriteria ==
    Compared =>
        \A m \in NotifiableMerged :
            /\ \E r \in notifiable_active_outages :
                  /\ r.outage_id = m.outage_id
                  /\ "notification_reason" \in DOMAIN r
            /\ \A i \in MessagesOf("escalated", m.outage_id) :
                  /\ messages_to_send[i][3] # <<>>
                  /\ messages_to_send[i][3] = ClaimedReason(m)

\* determine_notification_reason was applied to a row whose previous expected
\* length is None: it raised and the rows carry no reason.
C13_Witness ==
    /\ Compared
    /\ \E m \in NotifiableMerged : ReasonRaises(m, previous_file_df)
    /\ \A r \in notifiable_active_outages :
          "notification_reason" \notin DOMAIN r

\* An outage crosses the large-outage threshold from below the customer
\* threshold without meeting the primary thresholds: its reason is the
\* large-outage fragment alone, with no fragment for the customer criterion.
C13_WitnessLargeOnly ==
    /\ Compared
    /\ \E m \in NotifiableMerged :
          /\ m.customers_impacted_previous < customer_threshold
          /\ ~primary_thresholds_met(m)
          /\ \E i \in MessagesOf("escalated", m.outage_id) :
                Len(messages_to_send[i][3]) = 1

\* ---- reading a call of smallest_enclosing_circle --------------------------
\* The entries of the argument, and those that are points.
InputEntries ==
    UNION {{array_of_arrays_of_points[i][j] :
               j \in DOMAIN array_of_arrays_of_points[i]} :
           i \in DOMAIN array_of_arrays_of_points}
InputPoints == {p \in InputEntries : Len(p) = 2}
TwoRings ==
    /\ Len(array_of_arrays_of_points) = 2
    /\ array_of_arrays_of_points[1] # <<>>
    /\ array_of_arrays_of_points[2] # <<>>

\* Exact geometry, stated apart from the code's helpers.
Within(p, c) ==
    Square(p[1] * c[3] - c[1]) + Square(p[2] * c[3] - c[2]) <= c[4]
OnBoundary(p, c) ==
    Square(p[1] * c[3] - c[1]) + Square(p[2] * c[3] - c[2]) = c[4]
Encloses(c, S) == c # NoCircle /\ c[3] > 0 /\ \A p \in S : Within(p, c)
SameCircle(c1, c2) ==
    /\ c1[1] * c2[3] = c2[1] * c1[3]
    /\ c1[2] * c2[3] = c2[2] * c1[3]
    /\ c1[4] * Square(c2[3]) = c2[4] * Square(c1[3])
RadiusLE(c1, c2) == c1[4] * Square(c2[3]) <= c2[4] * Square(c1[3])
Collinear(a, b, c) ==
    (b[1] - a[1]) * (c[2] - a[2]) = (b[2] - a[2]) * (c[1] - a[1])
DistanceSquared(a, b) == Square(a[1] - b[1]) + Square(a[2] - b[2])

\* The circles determined by one, two or three points of S (the smallest
\* enclosing circle of S is one of them), each checked to pass through its
\* points.
CandidateCircles(S) ==
    {<<p[1], p[2], 1, 0>> : p \in S}
    \cup {c \in {<<a[1] + b[1], a[2] + b[2], 2, DistanceSquared(a, b)>> :
                    a \in S, b \in S} : TRUE}
    \cup {k \in {circle_from_three_points(t[1], t[2], t[3]) :
                    t \in {t \in S \X S \X S : ~Collinear(t[1], t[2], t[3])}} :
             k # NoCircle}

\* ---- C14 ------------------------------------------------------------------
\* C14: for every argument with at least one point, in any number of rings
\* and any order, the returned circle has a radius >= 0 and every point of the
\* argument lies within it.
C14_CircleEnclosesEveryPoint ==
    (circle # {} /\ InputPoints # {}) =>
        \A c \in circle :
            /\ c # NoCircle
            /\ c[3] > 0 /\ c[4] >= 0
            /\ \A p \in InputPoints : Within(p, c)

\* Four distinct points in two rings were enclosed by a circle through three
\* of them.
C14_Witness ==
    /\ circle # {}
    /\ TwoRings
    /\ Cardinality(InputPoints) = 4
    /\ \A c \in circle :
          Cardinality({p \in InputPoints : OnBoundary(p, c)}) >= 3

\* ---- C15 ------------------------------------------------------------------
\* C15: the returned circle encloses the points of the argument, no circle
\* that encloses them is smaller, and any enclosing circle of the same radius
\* is the same circle; so the result is a function of the set of points:
\* every order, every grouping into rings and every repetition of the same
\* points yields the same circle.
C15_UniqueSmallestCircleOfTheSet ==
    (circle # {} /\ InputPoints # {}) =>
        \A c \in circle :
            /\ Encloses(c, InputPoints)
            /\ \A k \in CandidateCircles(InputPoints) :
                  Encloses(k, InputPoints) =>
                      /\ RadiusLE(c, k)
                      /\ RadiusLE(k, c) => SameCircle(c, k)
            /\ \A t \in InputPoints \X InputPoints \X InputPoints :
                  ~Collinear(t[1], t[2], t[3]) =>
                      \A k \in {circle_from_three_points(t[1], t[2], t[3])} :
                          OnBoundary(t[1], k) /\ OnBoundary(t[2], k)
                              /\ OnBoundary(t[3], k)

\* Three distinct points, one of them repeated, in two rings, with the point
\* that decides the circle first: the circle passes through all three.
C15_Witness ==
    /\ circle # {}
    /\ TwoRings
    /\ Cardinality(InputPoints) = 3
    /\ Len(Normalize(array_of_arrays_of_points)) = 4
    /\ \A c \in circle :
          /\ c[3] > 2
          /\ \A p \in InputPoints : OnBoundary(p, c)

\* ---- C16 ------------------------------------------------------------------
\* C16: every call returns a circle; an argument with no point (no ring, empty rings,
\* only None or malformed entries) returns exactly (0.0, 0.0, 0.0), and an
\* argument whose points are all one same point returns that point with
\* radius exactly 0.
C16_DegenerateInputs ==
    (circle # {}) =>
          /\ \A c \in circle : c # NoCircle /\ Len(c) = 4
          /\ InputPoints = {} => circle = {<<0, 0, 1, 0>>}
          /\ \A p \in InputPoints :
                InputPoints = {p} => circle = {<<p[1], p[2], 1, 0>>}

\* The same point twice, among a None and a malformed entry: the point is
\* returned with radius 0.
C16_Witness ==
    /\ circle # {}
    /\ Cardinality(InputPoints) = 1
    /\ Len(Normalize(array_of_arrays_of_points)) = 2
    /\ <<>> \in InputEntries
    /\ <<0>> \in InputEntries
    /\ \E p \in InputPoints : circle = {<<p[1], p[2], 1, 0>>}

\* ---- C17 ------------------------------------------------------------------
\* C17: for three collinear points p, q, r of the argument
\* _circle_from_three_points returns None and the three-point step leaves the
\* running circle (the circle of diameter pq) unchanged; and when all the
\* points of the argument are on one line the returned circle is the circle
\* whose diameter joins the two points farthest apart.
C17_CollinearPointsKeepTheCircle ==
    /\ \A p \in InputPoints : \A q \in InputPoints : \A r \in InputPoints :
          (Cardinality({p, q, r}) = 3 /\ Collinear(p, q, r)) =>
              /\ circle_from_three_points(p, q, r) = NoCircle
              /\ ThreePointStep(Running(circle_from_two_points(p, q), FALSE),
                                p, q, r).c
                    = circle_from_two_points(p, q)
    /\ (/\ circle # {}
        /\ Cardinality(InputPoints) >= 2
        /\ \A p \in InputPoints : \A q \in InputPoints : \A r \in InputPoints :
              Collinear(p, q, r))
       => \A c \in circle :
             \E a \in InputPoints : \E b \in InputPoints :
                /\ \A p \in InputPoints : \A q \in InputPoints :
                      DistanceSquared(p, q) <= DistanceSquared(a, b)
                /\ SameCircle(c, <<a[1] + b[1], a[2] + b[2], 2,
                                   DistanceSquared(a, b)>>)

\* Three distinct points of one line: the circle returned has the two outer
\* points on its boundary, and the three-point step never met the triple
\* (the two-point circle already held the third point).
C17_Witness ==
    /\ circle # {}
    /\ Cardinality(InputPoints) = 3
    /\ \A p \in InputPoints : \A q \in InputPoints : \A r \in InputPoints :
          Collinear(p, q, r)
    /\ \A c \in circle :
          Cardinality({p \in InputPoints : OnBoundary(p, c)}) = 2
    /\ ~three_point_skipped

\* ---- C18 ------------------------------------------------------------------
\* C18: a row without a usable restoration estimate has a null expected
\* length and does not meet the primary thresholds; every row has its elapsed
\* time; the run never ends in an exception, and when it ends every file has
\* been processed.
C18_MissingTimesNeverAbort ==
    /\ \A r \in current_file_df \cup previous_file_df :
          isna(r.est_restoration_time) =>
              (isna(r.expected_length_minutes) /\ ~PrimaryMet(r))
    /\ \A r \in current_file_df : ~isna(r.elapsed_time_minutes)
    /\ pc # "raised"
    /\ pc = "done" => file_index = all_files

\* The run has ended with a traceback on a row whose previous restoration
\* estimate is missing, with files left unread.
C18_Witness ==
    /\ pc = "raised"
    /\ exit_status = {1}
    /\ file_index < all_files
    /\ \E m \in NotifiableMerged :
          /\ isna(m.expected_length_minutes_previous)
          /\ \A p \in previous_file_df : isna(p.est_restoration_time)

\* ---- C19 ------------------------------------------------------------------
NegativeThreshold ==
    \/ args.remaining_expected_length_threshold < 0
    \/ args.customer_threshold < 0
    \/ args.large_outage_customer_threshold < 0
    \/ args.elapsed_time_threshold_minutes < 0

\* C19: a run whose command line holds a negative threshold reads no file and
\* compares nothing: it never enters the loop.
C19_NegativeThresholdRejected ==
    NegativeThreshold =>
        /\ pc \in {"start", "exit"}
        /\ file_index = 0
        /\ messages_to_send = <<>>

\* With a customer threshold of -1 two files have been compared and a message
\* was sent.
C19_Witness ==
    /\ args.customer_threshold < 0
    /\ Compared
    /\ Len(messages_to_send) > 0

\* ---- C20 ------------------------------------------------------------------
\* The comparison of snapshot `prev` with snapshot `cur` ends in an exception:
\* an outage newly meets the primary thresholds, its previous expected length
\* is missing, and so is that of every other row of `prev`.
PairRaises(prev, cur) ==
    \E p \in prev : \E c \in cur :
        /\ p.outage_id = c.outage_id
        /\ PrimaryMet(c) /\ ~PrimaryMet(p)
        /\ \A q \in prev : isna(q.expected_length_minutes)

\* The events of the comparison of snapshot `prev` with snapshot `cur`, as a
\* function of the two snapshots and the thresholds.
EventsOfPair(prev, cur) ==
    IF PairRaises(prev, cur) THEN {}
    ELSE {<<"new", c.outage_id>> :
             c \in {c \in cur : /\ c.outage_id \notin outage_ids(prev)
                                /\ OverallNotifiable(c)}}
         \cup {<<"resolved", p.outage_id>> :
                 p \in {p \in prev : /\ p.outage_id \notin outage_ids(cur)
                                    /\ OverallNotifiable(p)}}
         \cup {<<"escalated", c.outage_id>> :
                 c \in {c \in cur :
                          \E p \in prev :
                              /\ p.outage_id = c.outage_id
                              /\ \/ PrimaryMet(c) /\ ~PrimaryMet(p)
                                 \/ LargeMet(c) /\ ~LargeMet(p)}}

EventsSent == {<<messages_to_send[i][1], messages_to_send[i][2]>> :
                  i \in DOMAIN messages_to_send}

\* C20: at every comparison the events sent are a function of the file read
\* just before (with its derived columns), the file read now and the
\* thresholds, whatever came earlier in the run; and the file read now is all
\* that is kept for the next comparison.
C20_EventsDependOnLastPairOnly ==
    [][(file_index >= 1 /\ file_index' = file_index + 1) =>
          /\ EventsSent' = EventsOfPair(current_file_df, current_file_df')
          /\ previous_file_df' = current_file_df]_vars

\* At the last file an outage that was notified on the primary path at an
\* earlier comparison, and has met the primary thresholds ever since, is
\* escalated for crossing the large-outage threshold.
C20_Witness ==
    /\ file_index = MaxFiles
    /\ \E m \in EscalatedMerged :
          /\ ~EscalationCause(m, "primary")
          /\ EscalationCause(m, "large")
          /\ <<m.outage_id, "primary">> \in notified_path

\* ---- C21 ------------------------------------------------------------------
\* The events main hands to send_notification: the rows of its DataFrames.
EventsHanded ==
    {<<"new", r.outage_id>> : r \in notifiable_new_outages}
    \cup {<<"escalated", r.outage_id>> : r \in notifiable_active_outages}
    \cup {<<"resolved", r.outage_id>> : r \in notifiable_resolved_outages}

\* test_outage_notifier.parse_notification_files, lines 107-112: the kind and
\* the outage id recovered from the file names.
FilePairs == {<<f[2], f[3]>> : f \in notification_files}

LatestSnapshot == AnalysisColumns(latest_outages_df(outage_updates_df))
PreviousSnapshot == AnalysisColumns(previous_outages_df(outage_updates_df))

ExceedsAllThree(r) ==
    /\ \E v \in r.expected_length_minutes :
          v > AnalysisArgs.length_threshold * 60
    /\ r.customers_impacted > AnalysisArgs.customer_threshold
    /\ \E v \in r.elapsed_time_minutes :
          v > AnalysisArgs.elapsed_time_threshold_minutes

\* C22: when the program has ended, an outage is reported as new iff its
\* record of the latest snapshot strictly exceeds the three thresholds and
\* the previous snapshot has no record of it or a record that does not; older
\* snapshots play no part.
C22_NewIffNewlyAboveThresholds ==
    pc \in {"completed", "raised"} =>
        \A id \in OutageIds :
            id \in outage_ids(analysis_new_outages) <=>
                \E r \in LatestSnapshot :
                    /\ r.outage_id = id
                    /\ ExceedsAllThree(r)
                    /\ \A q \in PreviousSnapshot :
                          q.outage_id = id => ~ExceedsAllThree(q)

\* The program has ended with a traceback: INC1 exceeds the three thresholds
\* in the latest snapshot and is not in the previous one, another outage of
\* the latest snapshot has the restoration estimate "none", and INC1 is not
\* reported.
C22_Witness ==
    /\ pc = "raised"
    /\ exit_status = {1}
    /\ \E r \in LatestSnapshot : r.outage_id = "INC1" /\ ExceedsAllThree(r)
    /\ "INC1" \notin outage_ids(PreviousSnapshot)
    /\ \E r \in latest_outages_df(outage_updates_df) :
          r.outage_id = "INC2" /\ r.est_restoration_time = EstNoneText
    /\ "INC1" \notin outage_ids(analysis_new_outages)

\* ---- C23 ------------------------------------------------------------------
\* The placemarks of the file that are not placeholders.
Counted == {i \in DOMAIN placemarks : placemarks[i].EstCustomersOut # 0 - 1}
StartValues == {placemarks[i].StartUTC : i \in Counted}

RECURSIVE SumOver(_)
SumOver(indices) ==
    IF indices = {} THEN 0
    ELSE LET i == CHOOSE j \in indices : TRUE
         IN  placemarks[i].EstCustomersOut + SumOver(indices \ {i})

\* C23: the call returns, and it has appended exactly one row per distinct
\* StartUTC value among the placemarks that are not placeholders; the row of a
\* value holds the sum of the customers of the placemarks with that value and
\* a circle around all the points of their polygons.
C23_OneRowPerStartValue ==
    pc # "start" =>
        /\ pc = "parsed"
        /\ Len(snopud_rows) = Cardinality(StartValues)
        /\ \A v \in StartValues :
              LET members == {i \in Counted : placemarks[i].StartUTC = v}
              IN  \E k \in DOMAIN snopud_rows :
                     /\ snopud_rows[k].customers_impacted = SumOver(members)
                     /\ \A i \in members :
                        \A j \in DOMAIN placemarks[i].coordinates :
                           is_in_circle(placemarks[i].coordinates[j],
                                        snopud_rows[k].circle)

\* The same, for the start times taken to the second: one row per second in
\* which a counted placemark starts.
C23_OneRowPerStartSecond ==
    pc = "parsed" =>
        LET seconds == {placemarks[i].StartUTC[1] : i \in Counted}
        IN  /\ Len(snopud_rows) = Cardinality(seconds)
            /\ \A v \in seconds :
                  LET members == {i \in Counted : placemarks[i].StartUTC[1] = v}
                  IN  \E k \in DOMAIN snopud_rows :
                         /\ snopud_rows[k].outage_id = v
                         /\ snopud_rows[k].customers_impacted = SumOver(members)
                         /\ Len(snopud_rows[k].polygons) = Cardinality(members)
                         /\ \A i \in members :
                            \A j \in DOMAIN placemarks[i].coordinates :
                               is_in_circle(placemarks[i].coordinates[j],
                                            snopud_rows[k].circle)

\* A file whose Folder holds no placemark: the call has raised.
C23_Witness ==
    /\ pc = "raised"
    /\ placemarks = <<>>
    /\ snopud_rows = <<>>

\* Two placemarks whose start times differ within one second have become one
\* row.
C23_WitnessSameSecond ==
    /\ pc = "parsed"
    /\ Len(placemarks) = 2
    /\ Counted = {1, 2}
    /\ placemarks[1].StartUTC # placemarks[2].StartUTC
    /\ Len(snopud_rows) = 1
    /\ snopud_rows[1].customers_impacted = 8

\* ---- C24 ------------------------------------------------------------------
\* C24: once the file has been loaded, the call that loaded it and every later
\* call return the cached GeoDataFrame, whatever path they are given.
C24_LoadedIsReturned ==
    (zip_calls > 0 /\ zip_geo_df # NONE) => zip_returned = zip_geo_df

\* C24, second half: the file is read at most once after it has been loaded:
\* a call made with the cache set reads nothing.
C24_ReadAtMostOnce ==
    [][zip_geo_df # NONE => zip_reads' = zip_reads]_vars

\* The boundaries have been loaded by one call, and a later call has returned
\* None.
C24_Witness ==
    /\ zip_calls >= 2
    /\ zip_geo_df # NONE
    /\ zip_returned = NONE

\* ---- C25 -----------------------------------------------------------------
\* C25 as claimed: with -u pge, a snapshot file that is not valid JSON never
\* ends the run with an exception; parse_pge_file returns normally with no
\* row appended and the run goes on with an empty snapshot.
C25_InvalidPgeJsonIsAnEmptySnapshot ==
    (utility = "pge" /\ json_error) =>
        (pc # "raised" /\ current_file_df = EmptyDataFrame)

\* A PG&E file that is not valid JSON has been read after a first comparison
\* went through.
C25_Witness ==
    /\ utility = "pge"
    /\ json_error
    /\ file_index >= 3

\* ---- C27 -----------------------------------------------------------------
\* The events of the last comparison that carry a given outage id.
EventsOfId(id) == {i \in DOMAIN messages_to_send : messages_to_send[i][2] = id}
NewIds == {id \in OutageIds : NewEvent(id)}
EscalatedIds == {id \in OutageIds : EscalatedEvent(id)}
ResolvedIds == {id \in OutageIds : ResolvedEvent(id)}

\* C27: at every step each outage id receives at most one event, and the
\* kind is fixed by membership: New only for ids of the current file that are
\* not in the previous one, Resolved only for ids of the previous file that
\* are not in the current one, Escalated only for ids of both; the three id
\* sets are pairwise disjoint and hold no id absent from both files.
C27_KindFixedByMembership ==
    /\ \A i \in DOMAIN messages_to_send : messages_to_send[i][2] \in OutageIds
    /\ \A id \in OutageIds :
          /\ Cardinality(EventsOfId(id)) <= 1
          /\ NewEvent(id) => (InCurrent(id) /\ ~InPrevious(id))
          /\ ResolvedEvent(id) => (InPrevious(id) /\ ~InCurrent(id))
          /\ EscalatedEvent(id) => (InPrevious(id) /\ InCurrent(id))
    /\ NewIds \cap EscalatedIds = {}
    /\ NewIds \cap ResolvedIds = {}
    /\ EscalatedIds \cap ResolvedIds = {}
    /\ (NewIds \cup EscalatedIds \cup ResolvedIds)
          \subseteq (outage_ids(previous_file_df) \cup outage_ids(current_file_df))

\* One comparison gave two events of different kinds to two outages.
C27_Witness ==
    /\ Compared
    /\ Len(messages_to_send) = 2
    /\ messages_to_send[1][1] # messages_to_send[2][1]
    /\ messages_to_send[1][2] # messages_to_send[2][2]

\* A comparison in which a notifiable outage of both files got no event.
C27_WitnessSilent ==
    /\ Compared
    /\ pc # "raised"
    /\ \E id \in OutageIds :
          /\ InPrevious(id) /\ InCurrent(id)
          /\ OverallNotifiable(PreviousRecord(id))
          /\ OverallNotifiable(CurrentRecord(id))
          /\ EventsOfId(id) = {}

\* ---- C28 -----------------------------------------------------------------
\* C28 as claimed: an outage that was overall-notifiable in the first file
\* and in every file up to the previous one, without a crossing of the large
\* threshold, gets no New and no Escalated event at a comparison in which it
\* is still notifiable without such a crossing, and gets a Resolved event at
\* the comparison in which it is gone.
C28_SteadyOutageIsOnlyResolved ==
    Compared =>
        \A id \in notifiable_since_first :
            /\ (/\ InCurrent(id)
                /\ OverallNotifiable(CurrentRecord(id))
                /\ ~LargeCrossing(id))
                  => (~NewEvent(id) /\ ~EscalatedEvent(id))
            /\ ~InCurrent(id) => ResolvedEvent(id)

\* The part of C28 that holds: such an outage never gets a New event.
C28_SteadyOutageIsNeverNew ==
    Compared => \A id \in notifiable_since_first : ~NewEvent(id)

\* An outage notifiable since the first file, through two comparisons that
\* gave it no event, is gone at the third, which gives it a Resolved event.
C28_Witness ==
    /\ file_index >= 4
    /\ \E id \in notifiable_since_first :
          /\ ~InCurrent(id)
          /\ ResolvedEvent(id)

\* An outage notifiable since the first file through the large threshold
\* alone is escalated when it comes to meet the primary thresholds.
C28_WitnessEscalated ==
    /\ Compared
    /\ \E id \in notifiable_since_first :
          /\ InCurrent(id)
          /\ LargeMet(PreviousRecord(id))
          /\ LargeMet(CurrentRecord(id))
          /\ EscalatedEvent(id)

\* An outage notifiable since the first file is gone and the comparison
\* ended in an exception: no Resolved event.
C28_WitnessLost ==
    /\ Compared
    /\ pc = "raised"
    /\ \E id \in notifiable_since_first :
          /\ ~InCurrent(id)
          /\ OverallNotifiable(PreviousRecord(id))
          /\ ~ResolvedEvent(id)

\* ---- C29 -----------------------------------------------------------------
\* The outages of the previous file that were overall-notifiable in it.
NotifiableInPrevious ==
    {id \in OutageIds :
        InPrevious(id) /\ OverallNotifiable(PreviousRecord(id))}

\* C29, at the step of the file that fails JSON parsing (utility pse): the
\* file is compared as an empty snapshot, the run goes on, and every outage
\* that was overall-notifiable in the snapshot before gets a Resolved event.
C29_ResolvedAtTheFailedFile ==
    (utility = "pse" /\ json_error /\ Compared) =>
        /\ pc # "raised"
        /\ current_file_df = EmptyDataFrame
        /\ \A id \in NotifiableInPrevious : ResolvedEvent(id)

\* C29, at the step after it: each of those outages that is present and
\* overall-notifiable in the following snapshot gets a New event.
C29_NewAtTheNextFile ==
    (utility = "pse" /\ json_error /\ Compared
        /\ file_index' = file_index + 1) =>
        \A id \in NotifiableInPrevious :
            (/\ id \in outage_ids(current_file_df')
             /\ OverallNotifiable(RowOf(current_file_df', id)))
               => NewEvent(id)'

\* C29: a pse file that fails JSON parsing in the middle of a batch is an
\* empty snapshot, not a skipped one: Resolved for every outage that was
\* overall-notifiable before it, New at the next step for each of them that
\* is present and overall-notifiable after it.
C29_FailedFileIsAnEmptySnapshot ==
    /\ []C29_ResolvedAtTheFailedFile
    /\ [][C29_NewAtTheNextFile]_vars

\* A file that failed JSON parsing has been compared with a snapshot of two
\* notifiable outages, and one more file is left to read.
C29_Witness ==
    /\ utility = "pse"
    /\ json_error
    /\ Compared
    /\ pc = "loop"
    /\ file_index < all_files
    /\ NotifiableInPrevious = OutageIds
    /\ \A id \in OutageIds : ResolvedEvent(id)

\* ---- C26 -----------------------------------------------------------------
\* The step is a run of expand.py outside count-only mode.
ExportingRun ==
    /\ expand_runs' = expand_runs + 1
    /\ ~expand_args'.count_only

\* C26: outside count-only mode a run exits with status 0 iff at least one
\* file version was exported and with status 1 otherwise; the incremental file
\* is written only in incremental mode and only when at least one file was
\* exported, it then holds the file name of the most recent commit exported,
\* and it is left as it was otherwise.
C26_ExitAndIncrementalFollowTheExport ==
    [][ExportingRun =>
        /\ expand_exit' = IF files_exported' > 0 THEN {0} ELSE {1}
        /\ files_exported' = Len(exported_versions')
        /\ incremental_written' =>
              /\ expand_args'.incremental
              /\ files_exported' > 0
              /\ incremental_file' =
                    {export_filename(Timestamp(exported_versions'[1]))}
        /\ ~incremental_written' => incremental_file' = incremental_file]_vars

\* An incremental run exported two versions and wrote the name of the first
\* one, which differs from the name of the second, into the incremental file.
C26_Witness ==
    /\ expand_args.incremental
    /\ ~expand_args.count_only
    /\ expand_exit = {0}
    /\ files_exported = 2
    /\ incremental_written
    /\ export_filename(Timestamp(exported_versions[1]))
          # export_filename(Timestamp(exported_versions[2]))

\* An incremental run found versions, exported none, and left the
\* incremental file alone.
C26_WitnessNothingExported ==
    /\ expand_args.incremental
    /\ ~expand_args.count_only
    /\ expand_args.path_exists
    /\ file_versions # <<>>
    /\ files_exported = 0
    /\ expand_exit = {1}
    /\ ~incremental_written

\* ---- C30 -----------------------------------------------------------------
\* The step is a run of expand.py in incremental mode that reaches the export.
IncrementalRun ==
    /\ expand_runs' = expand_runs + 1
    /\ expand_args'.incremental
    /\ ~expand_args'.count_only
    /\ expand_args'.path_exists

\* The commit whose export gave the name the last run wrote.
NamedCommit == exported_versions[1]

\* C30: the lower bound of incremental mode is inclusive.  When the run before
\* wrote the incremental file, the commit it named was authored in UTC and
\* that commit is still within the commit limit, an incremental run exports
\* that commit again and exits with status 0; when no commit is newer, it
\* writes the same file name into the incremental file.
C30_LowerBoundIsInclusive ==
    [][(/\ IncrementalRun
        /\ incremental_written
        /\ NamedCommit.offset = 0
        /\ \E k \in DOMAIN iter_commits(commits, expand_args'.limit) :
              commits[k] = NamedCommit)
       => /\ expand_exit' = {0}
          /\ \E i \in DOMAIN exported_versions' :
                exported_versions'[i] = NamedCommit
          /\ incremental_written'
          /\ commits[1] = NamedCommit
                => incremental_file' = incremental_file]_vars

\* The second of two runs, incremental and without limit, selected the newest
\* commit alone although an older exportable one exists: its lower bound was
\* the time of that newest commit, read from the incremental file the first
\* run wrote.  It exported the commit again and wrote the same name.
C30_Witness ==
    /\ expand_runs = 2
    /\ expand_args.incremental
    /\ ~expand_args.count_only
    /\ expand_args.limit = 0
    /\ Len(commits) = 2
    /\ \A k \in 1..2 : commits[k].offset = 0 /\ commits[k].type = "M"
                          /\ commits[k].show
    /\ commits[1].utc > commits[2].utc
    /\ file_versions = <<commits[1]>>
    /\ exported_versions = <<commits[1]>>
    /\ incremental_written
    /\ incremental_file = {export_filename(Timestamp(commits[1]))}
    /\ expand_exit = {0}

====
